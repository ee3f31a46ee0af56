------------------------------ MODULE Terminal ------------------------------
(***************************************************************************)
(* `phdp run` around a session: the pseudo-terminal with its output pump   *)
(* (vdr/drivers.cpp), the engine's wait, the session's lock, waiter and    *)
(* watchdog, and the command's input pump, signal relay and raw terminal   *)
(* (cli_run.cpp).                                                          *)
(*                                                                         *)
(* Output is counted, input is a queue of keys: "x" or the interrupt key   *)
(* "C".  A step of a thread is what it does between two points where       *)
(* another may intervene: a poll with the read after it, a callback, a     *)
(* section of the session's mutex, a write that may block inside it.       *)
(***************************************************************************)
EXTENDS Naturals, Sequences

CONSTANTS MaxOut, OutCap,     \* what the guest writes; what the terminal buffers
          MaxKeys, InCap,     \* keys typed; input the terminal buffers
          MaxKills            \* SIGINTs sent to the command by other processes

ASSUME BoundsAreNatural == {MaxOut, OutCap, MaxKeys, InCap, MaxKills} \subseteq Nat

VARIABLES pty,      \* --pty, else the guest inherits the caller's terminal
          leak,     \* somebody outside the guest's tree holds the slave open
          guest,    \* none, running, gone
          attached, \* a descriptor of the slave is open in the guest's tree
          out, buf, inq,      \* written by the guest, waiting to be read on either side
          late,     \* history: written after the pump had ended
          main,     \* where run_command stands
          pump, chunk, delivered, stopping,  \* PtyDriver's pump
          waiter,   \* the session's waiter thread, in finish_pump too
          watchdog,
          mu,       \* who holds Session::mu_
          input, held, wake, eof,   \* InputPump
          relay, stop,        \* SignalRelay
          pending,  \* a SIGINT blocked in the command: none, from the kernel, from a user
          term,     \* the caller's terminal
          keys, ended,        \* typed and not read; end of input
          typed, kills, sent, got   \* history: SIGINTs meant for the guest and received

terminal == <<attached, out, buf, inq, late>>
pumping == <<pump, chunk, delivered, stopping>>
inputs == <<input, held, wake, eof>>
user == <<term, keys, ended, typed, kills, sent>>
vars == <<pty, leak, guest, terminal, main, pumping, waiter, watchdog, mu, inputs,
          relay, stop, pending, user, got>>

Init == /\ pty \in BOOLEAN /\ leak \in BOOLEAN /\ (leak => pty)
        /\ guest = "none" /\ attached = FALSE /\ out = 0 /\ buf = 0 /\ inq = 0 /\ late = 0
        /\ main = "raw" /\ waiter = "none" /\ watchdog = "none" /\ mu = "free"
        /\ pump = "none" /\ chunk = 0 /\ delivered = 0 /\ stopping = FALSE
        /\ input = "none" /\ held = <<>> /\ wake = FALSE /\ eof = FALSE
        /\ relay = "none" /\ stop = FALSE /\ pending = "none"
        /\ term = "cooked" /\ keys = <<>> /\ ended = FALSE
        /\ typed = 0 /\ kills = 0 /\ sent = 0 /\ got = 0

\* The slave is open in the guest's tree or elsewhere; else the master is hung up.
SlaveOpen == attached \/ leak
Readable == buf > 0 \/ ~SlaveOpen

----------------------------------------------------------------------------
\* run_command.

\* The configuration or the session is refused, before the terminal is touched.
SetupFails == /\ main = "raw" /\ main' = "returned"
              /\ UNCHANGED <<pty, leak, guest, terminal, pumping, waiter, watchdog, mu, inputs, relay,
                             stop, pending, user, got>>

\* RawTerminal: standard input that is no terminal, or refuses, is left as it is.
SetRaw == /\ main = "raw" /\ main' = "start"
          /\ term' \in IF pty THEN {"raw", term} ELSE {term}
          /\ UNCHANGED <<pty, leak, guest, terminal, pumping, waiter, watchdog, mu, inputs, relay,
                         stop, pending, keys, ended, typed, kills, sent, got>>

\* Session::start and RootlessInstance::start: the guest runs, then its pump, then the
\* waiter and the watchdog.
Start == /\ main = "start" /\ main' = "relay"
         /\ guest' = "running" /\ attached' = pty /\ waiter' = "wait" /\ watchdog' = "armed"
         /\ pump' = IF pty THEN "poll" ELSE "none"
         /\ UNCHANGED <<pty, leak, out, buf, inq, late, chunk, delivered, stopping, mu, inputs, relay,
                        stop, pending, user, got>>

restore_forgotten == term

\* RawTerminal::restore.
restore == "cooked"

StartFails == /\ main = "start" /\ main' = "returned"
              /\ guest' = "gone" /\ term' = restore
              /\ UNCHANGED <<pty, leak, terminal, pumping, waiter, watchdog, mu, inputs, relay, stop,
                             pending, keys, ended, typed, kills, sent, got>>

StartThreads == /\ main = "relay" /\ main' = "wait"
                /\ relay' = "wait" /\ input' = IF pty THEN "poll" ELSE "none"
                /\ UNCHANGED <<pty, leak, guest, terminal, pumping, waiter, watchdog, mu, held, wake,
                               eof, stop, pending, user, got>>

\* Session::wait(-1), then ~InputPump.
Waited == /\ main = "wait" /\ waiter = "ended" /\ mu = "free"
          /\ main' = "join_input" /\ wake' = TRUE
          /\ UNCHANGED <<pty, leak, guest, terminal, pumping, waiter, watchdog, mu, input, held, eof,
                         relay, stop, pending, user, got>>

JoinInput == /\ main = "join_input" /\ input \in {"none", "ended"}
             /\ main' = "join_relay" /\ stop' = TRUE
             /\ UNCHANGED <<pty, leak, guest, terminal, pumping, waiter, watchdog, mu, inputs, relay,
                            pending, user, got>>

JoinRelay == /\ main = "join_relay" /\ relay = "ended"
             /\ main' = "destroy" /\ term' = restore
             /\ UNCHANGED <<pty, leak, guest, terminal, pumping, waiter, watchdog, mu, inputs, relay,
                            stop, pending, keys, ended, typed, kills, sent, got>>

Destroy == /\ main = "destroy" /\ watchdog = "done" /\ main' = "returned"
           /\ UNCHANGED <<pty, leak, guest, terminal, pumping, waiter, watchdog, mu, inputs, relay,
                          stop, pending, user, got>>

RunCommand == SetupFails \/ SetRaw \/ Start \/ StartFails \/ StartThreads \/ Waited \/ JoinInput \/ JoinRelay
              \/ Destroy

----------------------------------------------------------------------------
\* pump_main.

readable_unless_stopping == Readable /\ ~stopping

\* The master is looked at before the request to stop.
pump_reads == Readable

PumpPoll == /\ pump = "poll"
            /\ \/ pump_reads /\ buf > 0 /\ chunk' = buf /\ buf' = 0 /\ pump' = "call"
               \/ pump_reads /\ buf = 0 /\ pump' = "ended" /\ UNCHANGED <<chunk, buf>>  \* EIO
               \/ ~pump_reads /\ stopping /\ pump' = "ended" /\ UNCHANGED <<chunk, buf>>
            /\ UNCHANGED <<pty, leak, guest, attached, out, inq, late, main, delivered, stopping, waiter, watchdog, mu,
                           inputs, relay, stop, pending, user, got>>

PumpCall == /\ pump = "call" /\ pump' = "poll"
            /\ delivered' = delivered + chunk /\ chunk' = 0
            /\ UNCHANGED <<pty, leak, guest, terminal, main, stopping, waiter, watchdog, mu, inputs,
                           relay, stop, pending, user, got>>

Pump == PumpPoll \/ PumpCall

\* waiter_main: the engine's wait ends when the guest's tree is gone, finish_pump when
\* nothing is left to read or two seconds are over, and the pump has been joined.
Waiter == /\ \/ waiter = "wait" /\ guest = "gone"
                /\ waiter' = (IF pump = "none" THEN "record" ELSE "drain") /\ UNCHANGED stopping
             \/ waiter = "drain" /\ ~Readable /\ waiter' = "stop" /\ UNCHANGED stopping
             \/ waiter = "stop" /\ stopping' = TRUE /\ waiter' = "join"
             \/ waiter = "join" /\ pump = "ended" /\ waiter' = "record" /\ UNCHANGED stopping
             \/ waiter = "record" /\ mu = "free" /\ waiter' = "ended" /\ UNCHANGED stopping
          /\ UNCHANGED <<pty, leak, guest, terminal, main, pump, chunk, delivered, watchdog, mu, inputs,
                         relay, stop, pending, user, got>>

Deadline == /\ waiter = "drain" /\ waiter' = "stop"
            /\ UNCHANGED <<pty, leak, guest, terminal, main, pumping, watchdog, mu, inputs, relay, stop,
                           pending, user, got>>

\* watchdog_main.
Timeout == /\ watchdog = "armed" /\ waiter # "ended" /\ watchdog' = "expired"
           /\ UNCHANGED <<pty, leak, guest, terminal, main, pumping, waiter, mu, inputs, relay, stop,
                          pending, user, got>>

Watchdog == /\ \/ watchdog = "expired" /\ mu = "free" /\ guest' = "gone" /\ attached' = FALSE
               \/ watchdog = "armed" /\ waiter = "ended" /\ UNCHANGED <<guest, attached>>
            /\ watchdog' = "done"
            /\ UNCHANGED <<pty, leak, out, buf, inq, late, main, pumping, waiter, mu, inputs, relay, stop, pending,
                           user, got>>

----------------------------------------------------------------------------
\* InputPump::loop.

InputPoll == /\ input = "poll"
             /\ \/ wake /\ input' = "ended" /\ UNCHANGED <<held, keys, eof>>
                \/ /\ ~wake /\ keys # <<>>
                   /\ held' = keys /\ keys' = <<>> /\ input' = "lock" /\ UNCHANGED eof
                \/ /\ ~wake /\ keys = <<>> /\ ended /\ ~eof
                   /\ held' = <<"eof">> /\ eof' = TRUE /\ input' = "lock" /\ UNCHANGED keys
             /\ UNCHANGED <<pty, leak, guest, terminal, main, pumping, waiter, watchdog, mu, wake, relay,
                            stop, pending, term, ended, typed, kills, sent, got>>

\* Session::write_input takes the lock and keeps it across the writes.
InputLock == /\ input = "lock" /\ mu = "free" /\ mu' = "input" /\ input' = "write"
             /\ UNCHANGED <<pty, leak, guest, terminal, main, pumping, waiter, watchdog, held, wake, eof,
                            relay, stop, pending, user, got>>

write_input_waits ==
    IF Head(held) = "C" THEN held' = Tail(held) /\ got' = got + 1 /\ UNCHANGED inq
    ELSE inq < InCap /\ inq' = inq + 1 /\ held' = Tail(held) /\ UNCHANGED got

\* write(2) of the next key: an error after a hangup, a signal at once for the interrupt
\* key, else room in the terminal's buffer, for which it waits.
write_input ==
    IF ~SlaveOpen THEN held' = <<>> /\ UNCHANGED <<inq, got>>
    ELSE IF Head(held) = "C" THEN held' = Tail(held) /\ got' = got + 1 /\ UNCHANGED inq
    ELSE inq < InCap /\ inq' = inq + 1 /\ held' = Tail(held) /\ UNCHANGED got

InputWrite == /\ input = "write"
              /\ \/ held # <<>> /\ write_input /\ UNCHANGED <<mu, input>>
                 \/ held = <<>> /\ mu' = "free" /\ input' = "poll" /\ UNCHANGED <<held, inq, got>>
              /\ UNCHANGED <<pty, leak, guest, attached, out, buf, late, main, pumping, waiter, watchdog, wake, eof,
                             relay, stop, pending, user>>

Input == InputPoll \/ InputLock \/ InputWrite

\* SignalRelay::loop.
relay_all(from) == TRUE

\* A SIGINT the terminal raised went to the guest too, when it shares the terminal.
relays(from) == pty \/ from = "user"

\* Session::signal and signal_main: only to a guest that runs and is not reaped.
signal_main == IF guest = "running" /\ waiter # "ended" THEN got + 1 ELSE got

Relay == /\ \/ /\ relay = "wait" /\ pending # "none" /\ pending' = "none"
               /\ relay' = IF relays(pending) THEN "signal" ELSE "wait"
               /\ UNCHANGED got
            \/ /\ relay = "signal" /\ mu = "free" /\ relay' = "wait"
               /\ got' = signal_main /\ UNCHANGED pending
            \/ relay = "wait" /\ stop /\ relay' = "ended" /\ UNCHANGED <<pending, got>>
         /\ UNCHANGED <<pty, leak, guest, terminal, main, pumping, waiter, watchdog, mu, inputs, stop, user>>

----------------------------------------------------------------------------
\* External: the guest and the person at the terminal.

\* It writes, reads, closes its last descriptor of the slave or opens /dev/pts/N again, ends.
GuestStep ==
    /\ guest = "running"
    /\ \/ /\ pty /\ attached /\ out < MaxOut /\ buf < OutCap /\ out' = out + 1 /\ buf' = buf + 1
          /\ late' = IF pump = "ended" THEN late + 1 ELSE late
          /\ UNCHANGED <<guest, attached, inq>>
       \/ attached /\ inq > 0 /\ inq' = inq - 1 /\ UNCHANGED <<guest, attached, out, buf, late>>
       \/ pty /\ attached' = ~attached /\ UNCHANGED <<guest, out, buf, inq, late>>
       \/ guest' = "gone" /\ attached' = FALSE /\ UNCHANGED <<out, buf, inq, late>>
    /\ UNCHANGED <<pty, leak, main, pumping, waiter, watchdog, mu, inputs, relay, stop, pending, user, got>>

Interrupted(from) == pending' = IF pending = "none" THEN from ELSE pending

\* A key: input of the command with --pty; the interrupt key of a cooked terminal signals
\* everybody who shares it (a pipe of the command's may hold that character, too).
Key(k) ==
    /\ main # "returned" /\ typed < MaxKeys /\ ~ended /\ typed' = typed + 1
    /\ sent' = IF k = "C" THEN sent + 1 ELSE sent
    /\ \/ pty /\ main # "raw" /\ keys' = Append(keys, k) /\ UNCHANGED <<pending, got>>
       \/ /\ term = "cooked" /\ k = "C" /\ Interrupted("kernel") /\ UNCHANGED keys
          /\ got' = IF ~pty /\ guest = "running" THEN got + 1 ELSE got
    /\ UNCHANGED <<pty, leak, guest, terminal, main, pumping, waiter, watchdog, mu, inputs, relay, stop,
                   term, ended, kills>>

Kill == /\ main # "returned" /\ kills < MaxKills /\ kills' = kills + 1 /\ sent' = sent + 1
        /\ Interrupted("user")
        /\ UNCHANGED <<pty, leak, guest, terminal, main, pumping, waiter, watchdog, mu, inputs, relay, stop,
                       term, keys, ended, typed, got>>

EndOfInput == /\ pty /\ main \notin {"raw", "returned"} /\ ~ended /\ ended' = TRUE
              /\ UNCHANGED <<pty, leak, guest, terminal, main, pumping, waiter, watchdog, mu, inputs, relay,
                             stop, pending, term, keys, typed, kills, sent, got>>

\* The command has returned, or hangs because a leaked slave keeps a full buffer alive.
Over == /\ main = "returned" \/ (leak /\ guest = "gone" /\ input = "write" /\ inq = InCap)
        /\ UNCHANGED vars

Next == \/ RunCommand \/ Pump \/ Waiter \/ Deadline \/ Timeout \/ Watchdog \/ Input \/ Relay
        \/ GuestStep \/ Key("x") \/ Key("C") \/ Kill \/ EndOfInput \/ Over

\* Every thread runs, a callback returns, two seconds pass; the guest and the person
\* at the terminal need not do anything.
Fairness == /\ WF_vars(RunCommand) /\ WF_vars(Pump) /\ WF_vars(Waiter) /\ WF_vars(Deadline)
            /\ WF_vars(Watchdog) /\ WF_vars(Input) /\ WF_vars(Relay)

Spec == Init /\ [][Next]_vars /\ Fairness

----------------------------------------------------------------------------
\* When a session's end is reported, the client has been given everything the guest
\* wrote, however late the pump gets to it, and no callback is running.  The exception is
\* what a guest writes that closed its last descriptor of the terminal and opened it again:
\* if the pump looked in between it has seen the hang-up and returned for good.
OutputDelivered ==
    waiter \in {"record", "ended"} => delivered + late = out /\ pump \in {"none", "ended"}

\* On every way out the caller's terminal is as it was, and no thread of the command or
\* the session is left that could touch it or the destroyed session.
CallerRestored ==
    main \in {"destroy", "returned"} =>
        /\ term = "cooked"
        /\ relay \in {"none", "ended"} /\ input \in {"none", "ended"} /\ pump \in {"none", "ended"}
        /\ main = "returned" => watchdog \in {"none", "done"} /\ waiter \in {"none", "ended"}

\* An interrupt reaches the guest at most once, whether it comes through the shared
\* terminal, the raw terminal's input or a signal to the command.
InterruptedOnce == got <= sent

\* Once the guest is gone the command returns, whatever is still in the buffers, typed or
\* on its way; a slave that somebody outside the tree keeps open is not covered.
RunReturns == guest = "gone" /\ ~leak ~> main = "returned"

\* A session's timeout kills its guest.
TimeoutKills == watchdog = "expired" ~> guest = "gone"
=============================================================================
