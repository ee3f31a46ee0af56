--------------------------- MODULE TerminalProofs ---------------------------
(***************************************************************************)
(* Proofs about Terminal, for any amount of output and input and any size  *)
(* of the terminal's buffers: OutputDelivered, CallerRestored and          *)
(* InterruptedOnce.                                                        *)
(*                                                                         *)
(* OutputDelivered rests on an account of the output: what the guest wrote *)
(* is delivered, in the pump's hands or in the terminal (FlowInv), and     *)
(* what is in the terminal when the pump has ended was written after that  *)
(* (PumpInv).  InterruptedOnce rests on an account of the interrupts: each *)
(* one meant for the guest is in at most one of the places it can wait in  *)
(* (CreditInv).  CallerRestored is a matter of who has ended before whom   *)
(* (PhaseInv, JoinInv).                                                    *)
(***************************************************************************)
EXTENDS Terminal, FiniteSetTheorems, TLAPS

Chars == {"x", "C", "eof"}

(* The values the variables take.                                          *)
ThreadsType ==
  /\ guest \in {"none", "running", "gone"}
  /\ main \in {"raw", "start", "relay", "wait", "join_input", "join_relay", "destroy", "returned"}
  /\ pump \in {"none", "poll", "call", "ended"}
  /\ waiter \in {"none", "wait", "drain", "stop", "join", "record", "ended"}
  /\ watchdog \in {"none", "armed", "expired", "done"}
  /\ input \in {"none", "poll", "lock", "write", "ended"}
  /\ relay \in {"none", "wait", "signal", "ended"}
  /\ pending \in {"none", "kernel", "user"}
  /\ term \in {"raw", "cooked"}
CountersType ==
  /\ out \in Nat /\ buf \in Nat /\ late \in Nat /\ inq \in Nat /\ chunk \in Nat /\ delivered \in Nat
  /\ sent \in Nat /\ got \in Nat
QueuesType == held \in Seq(Chars) /\ keys \in Seq(Chars)
TypeInv == ThreadsType /\ CountersType /\ QueuesType

(* Output is in exactly one place.                                         *)
FlowInv ==
  /\ delivered + chunk + buf = out
  /\ pump # "call" => chunk = 0

(* The pump lives from the start of the guest and ends when nothing is left *)
(* to read; it is joined before the end is recorded.                       *)
PumpInv ==
  /\ pump = "none" => out = 0 /\ (pty => guest # "running")
  /\ pump = "ended" => buf = late
  /\ pump # "ended" => late = 0
  /\ pump # "none" => guest # "none"
  /\ waiter \notin {"none", "wait"} => guest = "gone"
  /\ stopping => waiter \in {"join", "record", "ended"}
  /\ waiter \in {"record", "ended"} => pump \in {"none", "ended"}

(* What can have been started, by where run_command stands.                *)
PhaseInv ==
  /\ main = "raw" => term = "cooked"
  /\ main \in {"raw", "start"} =>
       /\ guest = "none" /\ waiter = "none" /\ watchdog = "none" /\ pump = "none"
  /\ main \in {"raw", "start", "relay"} => relay = "none" /\ input = "none"
  /\ main \in {"join_input", "join_relay", "destroy"} => waiter = "ended"

(* What has ended, by where run_command stands.                            *)
JoinInv ==
  /\ main \in {"join_relay", "destroy", "returned"} => input \in {"none", "ended"}
  /\ main \in {"destroy", "returned"} => term = "cooked" /\ relay \in {"none", "ended"}
  /\ main = "returned" => /\ watchdog \in {"none", "done"} /\ waiter \in {"none", "ended"}
                          /\ pump \in {"none", "ended"}

(* How many interrupt keys a queue of keys holds.                          *)
At(q) == {i \in 1 .. Len(q) : q[i] = "C"}
Count(q) == Cardinality(At(q))

Signalling(at) == IF at = "signal" THEN 1 ELSE 0
Waiting(from, own) == IF from = "user" \/ (from = "kernel" /\ own) THEN 1 ELSE 0

(* An interrupt is received, typed, about to be written, about to be       *)
(* signalled or pending; none is in two of these places.                   *)
CreditInv == got + Count(keys) + Count(held) + Signalling(relay) + Waiting(pending, pty) <= sent

Inv == TypeInv /\ FlowInv /\ PumpInv /\ PhaseInv /\ JoinInv /\ CreditInv

-----------------------------------------------------------------------------
(* Queues of keys.                                                         *)
LEMMA CountType ==
  ASSUME NEW q \in Seq(Chars)
  PROVE  IsFiniteSet(At(q)) /\ Count(q) \in Nat
<1>1. IsFiniteSet(1 .. Len(q))
  BY FS_Interval
<1>2. IsFiniteSet(At(q))
  BY <1>1, FS_Subset DEF At
<1> QED BY <1>2, FS_CardinalityType DEF Count

(* Queues without an interrupt key.                                        *)
LEMMA CountNone ==
  /\ <<>> \in Seq(Chars) /\ Count(<<>>) = 0
  /\ <<"eof">> \in Seq(Chars) /\ Count(<<"eof">>) = 0
<1>1. At(<<>>) = {} /\ At(<<"eof">>) = {}
  BY DEF At
<1> QED BY <1>1, FS_EmptySet DEF Count, Chars

(* A key typed after the others.                                           *)
LEMMA CountAppend ==
  ASSUME NEW q \in Seq(Chars), NEW k \in {"x", "C"}
  PROVE  /\ Append(q, k) \in Seq(Chars)
         /\ Count(Append(q, k)) = IF k = "C" THEN Count(q) + 1 ELSE Count(q)
<1>1. Append(q, k) \in Seq(Chars)
  BY DEF Chars
<1>2. CASE k = "C"
  <2>1. At(Append(q, k)) = At(q) \cup {Len(q) + 1} /\ Len(q) + 1 \notin At(q)
    BY <1>2 DEF At
  <2>2. Cardinality(At(q) \cup {Len(q) + 1}) = Cardinality(At(q)) + 1
    BY <2>1, CountType, FS_AddElement
  <2> QED BY <1>1, <1>2, <2>1, <2>2 DEF Count
<1>3. CASE k # "C"
  <2>1. At(Append(q, k)) = At(q)
    BY <1>3 DEF At
  <2> QED BY <1>1, <1>3, <2>1 DEF Count
<1> QED BY <1>2, <1>3

(* A key taken from the front.                                             *)
LEMMA CountTail ==
  ASSUME NEW q \in Seq(Chars), q # <<>>
  PROVE  /\ Tail(q) \in Seq(Chars)
         /\ Count(q) = IF Head(q) = "C" THEN Count(Tail(q)) + 1 ELSE Count(Tail(q))
<1> DEFINE rest == {i \in 2 .. Len(q) : q[i] = "C"}
           next == [i \in At(Tail(q)) |-> i + 1]
<1>1. Tail(q) \in Seq(Chars) /\ Len(Tail(q)) = Len(q) - 1 /\ Len(q) \in Nat \ {0}
  OBVIOUS
<1>2. \A i \in 1 .. Len(q) - 1 : Tail(q)[i] = q[i + 1]
  OBVIOUS
<1>3. next \in Bijection(At(Tail(q)), rest)
  <2>1. next \in [At(Tail(q)) -> rest]
    BY <1>1, <1>2 DEF At
  <2>2. \A i, j \in At(Tail(q)) : next[i] = next[j] => i = j
    BY DEF At
  <2>3. \A j \in rest : \E i \in At(Tail(q)) : next[i] = j
    <3> SUFFICES ASSUME NEW j \in rest PROVE \E i \in At(Tail(q)) : next[i] = j
      OBVIOUS
    <3>1. j - 1 \in At(Tail(q)) /\ next[j - 1] = j
      BY <1>1, <1>2 DEF At
    <3> QED BY <3>1
  <2> QED BY <2>1, <2>2, <2>3, Zenon DEF Bijection, Injection, Surjection, IsInjective
<1>4. At(q) = IF Head(q) = "C" THEN rest \cup {1} ELSE rest
  BY <1>1 DEF At
<1>5. 1 \notin rest
  OBVIOUS
<1>6. ExistsBijection(At(Tail(q)), rest)
  BY <1>3 DEF ExistsBijection
<1> HIDE DEF rest, next
<1>7. IsFiniteSet(At(Tail(q)))
  BY <1>1, CountType
<1>8. IsFiniteSet(rest) /\ Cardinality(rest) = Count(Tail(q))
  BY <1>6, <1>7, FS_Bijection DEF Count
<1>9. Cardinality(rest \cup {1}) = Cardinality(rest) + 1
  BY <1>5, <1>8, FS_AddElement
<1> QED BY <1>1, <1>4, <1>8, <1>9 DEF Count

-----------------------------------------------------------------------------
(* Types are preserved.                                                    *)
LEMMA ThreadsStep ==
  ASSUME ThreadsType, [Next]_vars
  PROVE  ThreadsType'
<1> USE DEF ThreadsType, terminal, pumping, inputs, user
<1>1. CASE RunCommand
  BY <1>1 DEF RunCommand, SetupFails, SetRaw, Start, StartFails, StartThreads, Waited, JoinInput,
         JoinRelay, Destroy, restore
<1>2. CASE PumpPoll
  BY <1>2 DEF PumpPoll, pump_reads, Readable, SlaveOpen
<1>3. CASE PumpCall
  BY <1>3 DEF PumpCall
<1>4. CASE Waiter
  BY <1>4 DEF Waiter
<1>5. CASE Deadline \/ Timeout
  BY <1>5 DEF Deadline, Timeout
<1>6. CASE Watchdog
  BY <1>6 DEF Watchdog
<1>7. CASE InputPoll
  BY <1>7 DEF InputPoll
<1>8. CASE InputLock
  BY <1>8 DEF InputLock
<1>9. CASE InputWrite
  BY <1>9 DEF InputWrite, write_input, SlaveOpen
<1>10. CASE Relay
  BY <1>10 DEF Relay, signal_main, relays
<1>11. CASE GuestStep
  BY <1>11 DEF GuestStep
<1>12. CASE Key("x") \/ Key("C")
  BY <1>12 DEF Key, Interrupted
<1>13. CASE Kill \/ EndOfInput
  BY <1>13 DEF Kill, EndOfInput, Interrupted
<1>14. CASE Over \/ UNCHANGED vars
  BY <1>14 DEF Over, vars
<1> QED
  BY <1>1, <1>2, <1>3, <1>4, <1>5, <1>6, <1>7, <1>8, <1>9, <1>10, <1>11, <1>12, <1>13, <1>14
         DEF Next, Pump, Input

(* Counters count.                                                         *)
LEMMA CountersStep ==
  ASSUME CountersType, [Next]_vars
  PROVE  CountersType'
<1> USE DEF CountersType, terminal, pumping, inputs, user
<1>1. CASE RunCommand
  BY <1>1 DEF RunCommand, SetupFails, SetRaw, Start, StartFails, StartThreads, Waited, JoinInput,
         JoinRelay, Destroy, restore
<1>2. CASE PumpPoll
  BY <1>2 DEF PumpPoll, pump_reads, Readable, SlaveOpen
<1>3. CASE PumpCall
  BY <1>3 DEF PumpCall
<1>4. CASE Waiter
  BY <1>4 DEF Waiter
<1>5. CASE Deadline \/ Timeout
  BY <1>5 DEF Deadline, Timeout
<1>6. CASE Watchdog
  BY <1>6 DEF Watchdog
<1>7. CASE InputPoll
  BY <1>7 DEF InputPoll
<1>8. CASE InputLock
  BY <1>8 DEF InputLock
<1>9. CASE InputWrite
  BY <1>9 DEF InputWrite, write_input, SlaveOpen
<1>10. CASE Relay
  BY <1>10 DEF Relay, signal_main, relays
<1>11. CASE GuestStep
  BY <1>11 DEF GuestStep
<1>12. CASE Key("x") \/ Key("C")
  BY <1>12 DEF Key, Interrupted
<1>13. CASE Kill \/ EndOfInput
  BY <1>13 DEF Kill, EndOfInput, Interrupted
<1>14. CASE Over \/ UNCHANGED vars
  BY <1>14 DEF Over, vars
<1> QED
  BY <1>1, <1>2, <1>3, <1>4, <1>5, <1>6, <1>7, <1>8, <1>9, <1>10, <1>11, <1>12, <1>13, <1>14
         DEF Next, Pump, Input

(* Queues hold keys.                                                       *)
LEMMA QueuesStep ==
  ASSUME QueuesType, [Next]_vars
  PROVE  QueuesType'
<1> USE DEF QueuesType, terminal, pumping, inputs, user
<1>1. CASE RunCommand
  BY <1>1 DEF RunCommand, SetupFails, SetRaw, Start, StartFails, StartThreads, Waited, JoinInput,
         JoinRelay, Destroy, restore
<1>2. CASE PumpPoll
  BY <1>2 DEF PumpPoll, pump_reads, Readable, SlaveOpen
<1>3. CASE PumpCall
  BY <1>3 DEF PumpCall
<1>4. CASE Waiter
  BY <1>4 DEF Waiter
<1>5. CASE Deadline \/ Timeout
  BY <1>5 DEF Deadline, Timeout
<1>6. CASE Watchdog
  BY <1>6 DEF Watchdog
<1>7. CASE InputPoll
  BY <1>7, CountNone DEF InputPoll
<1>8. CASE InputLock
  BY <1>8 DEF InputLock
<1>9. CASE InputWrite
  <2>1. held # <<>> => Tail(held) \in Seq(Chars)
    BY CountTail
  <2> QED BY <1>9, <2>1, CountNone DEF InputWrite, write_input, SlaveOpen
<1>10. CASE Relay
  BY <1>10 DEF Relay, signal_main, relays
<1>11. CASE GuestStep
  BY <1>11 DEF GuestStep
<1>12. CASE Key("x") \/ Key("C")
  BY <1>12, CountAppend DEF Key, Interrupted
<1>13. CASE Kill \/ EndOfInput
  BY <1>13 DEF Kill, EndOfInput, Interrupted
<1>14. CASE Over \/ UNCHANGED vars
  BY <1>14 DEF Over, vars
<1> QED
  BY <1>1, <1>2, <1>3, <1>4, <1>5, <1>6, <1>7, <1>8, <1>9, <1>10, <1>11, <1>12, <1>13, <1>14
         DEF Next, Pump, Input

(* Output stays accounted for, and the pump ends last.                     *)
LEMMA OutputStep ==
  ASSUME TypeInv, FlowInv, PumpInv, PhaseInv, [Next]_vars
  PROVE  FlowInv' /\ PumpInv'
<1> USE DEF TypeInv, ThreadsType, CountersType, FlowInv, PumpInv, PhaseInv, terminal, pumping,
        inputs, user
<1>1. CASE RunCommand
  BY <1>1 DEF RunCommand, SetupFails, SetRaw, Start, StartFails, StartThreads, Waited, JoinInput,
         JoinRelay, Destroy, restore
<1>2. CASE PumpPoll
  BY <1>2 DEF PumpPoll, pump_reads, Readable, SlaveOpen
<1>3. CASE PumpCall
  BY <1>3 DEF PumpCall
<1>4. CASE Waiter
  BY <1>4 DEF Waiter
<1>5. CASE Deadline \/ Timeout
  BY <1>5 DEF Deadline, Timeout
<1>6. CASE Watchdog
  BY <1>6 DEF Watchdog
<1>7. CASE InputPoll
  BY <1>7 DEF InputPoll
<1>8. CASE InputLock
  BY <1>8 DEF InputLock
<1>9. CASE InputWrite
  BY <1>9 DEF InputWrite, write_input, SlaveOpen
<1>10. CASE Relay
  BY <1>10 DEF Relay, signal_main, relays
<1>11. CASE GuestStep
  BY <1>11 DEF GuestStep
<1>12. CASE Key("x") \/ Key("C")
  BY <1>12 DEF Key, Interrupted
<1>13. CASE Kill \/ EndOfInput
  BY <1>13 DEF Kill, EndOfInput, Interrupted
<1>14. CASE Over \/ UNCHANGED vars
  BY <1>14 DEF Over, vars
<1> QED
  BY <1>1, <1>2, <1>3, <1>4, <1>5, <1>6, <1>7, <1>8, <1>9, <1>10, <1>11, <1>12, <1>13, <1>14
         DEF Next, Pump, Input

(* run_command starts and joins in order.                                  *)
LEMMA PhaseStep ==
  ASSUME TypeInv, PumpInv, PhaseInv, JoinInv, [Next]_vars
  PROVE  PhaseInv' /\ JoinInv'
<1> USE DEF TypeInv, ThreadsType, PumpInv, PhaseInv, JoinInv, terminal, pumping, inputs, user
<1>1. CASE RunCommand
  BY <1>1 DEF RunCommand, SetupFails, SetRaw, Start, StartFails, StartThreads, Waited, JoinInput,
         JoinRelay, Destroy, restore
<1>2. CASE PumpPoll
  BY <1>2 DEF PumpPoll, pump_reads, Readable, SlaveOpen
<1>3. CASE PumpCall
  BY <1>3 DEF PumpCall
<1>4. CASE Waiter
  BY <1>4 DEF Waiter
<1>5. CASE Deadline \/ Timeout
  BY <1>5 DEF Deadline, Timeout
<1>6. CASE Watchdog
  BY <1>6 DEF Watchdog
<1>7. CASE InputPoll
  BY <1>7 DEF InputPoll
<1>8. CASE InputLock
  BY <1>8 DEF InputLock
<1>9. CASE InputWrite
  BY <1>9 DEF InputWrite, write_input, SlaveOpen
<1>10. CASE Relay
  BY <1>10 DEF Relay, signal_main, relays
<1>11. CASE GuestStep
  BY <1>11 DEF GuestStep
<1>12. CASE Key("x") \/ Key("C")
  BY <1>12 DEF Key, Interrupted
<1>13. CASE Kill \/ EndOfInput
  BY <1>13 DEF Kill, EndOfInput, Interrupted
<1>14. CASE Over \/ UNCHANGED vars
  BY <1>14 DEF Over, vars
<1> QED
  BY <1>1, <1>2, <1>3, <1>4, <1>5, <1>6, <1>7, <1>8, <1>9, <1>10, <1>11, <1>12, <1>13, <1>14
         DEF Next, Pump, Input

(* No step makes two interrupts of one.  In most steps nothing is received, *)
(* and none of the places holds more than before.                          *)
LEMMA CreditStep ==
  ASSUME TypeInv, CreditInv, [Next]_vars
  PROVE  CreditInv'
<1> USE DEF terminal, pumping, inputs, user
<1>1. keys \in Seq(Chars) /\ held \in Seq(Chars)
  BY DEF TypeInv, QueuesType
<1>2. /\ Count(keys) \in Nat /\ Count(held) \in Nat /\ got \in Nat /\ sent \in Nat
      /\ Signalling(relay) \in Nat /\ Waiting(pending, pty) \in Nat
      /\ Signalling(relay') \in Nat /\ Waiting(pending', pty') \in Nat
  BY <1>1, CountType DEF TypeInv, CountersType, Signalling, Waiting
<1>3. got + Count(keys) + Count(held) + Signalling(relay) + Waiting(pending, pty) <= sent
  BY DEF CreditInv
<1>4. SUFFICES got' + Count(keys') + Count(held') + Signalling(relay') + Waiting(pending', pty') <= sent'
  BY DEF CreditInv, Count, At, Signalling, Waiting
<1>5. ASSUME UNCHANGED <<got, sent, keys, held, pending, pty>>,
             relay' # "signal" \/ UNCHANGED relay
      PROVE  got' + Count(keys') + Count(held') + Signalling(relay') + Waiting(pending', pty') <= sent'
  <2>1. Signalling(relay') <= Signalling(relay) /\ Waiting(pending', pty') = Waiting(pending, pty)
    BY <1>5 DEF Signalling, Waiting, relays
  <2> QED BY <1>2, <1>3, <1>5, <2>1
<1>6. CASE RunCommand
  BY <1>5, <1>6 DEF RunCommand, SetupFails, SetRaw, Start, StartFails, StartThreads, Waited,
         JoinInput, JoinRelay, Destroy
<1>7. CASE Pump \/ Waiter \/ Deadline \/ Timeout \/ Watchdog
  BY <1>5, <1>7 DEF Pump, PumpPoll, PumpCall, Waiter, Deadline, Timeout, Watchdog
<1>8. CASE InputPoll
  <2>1. Signalling(relay') = Signalling(relay) /\ Waiting(pending', pty') = Waiting(pending, pty) /\ UNCHANGED <<got, sent>>
    BY <1>8 DEF InputPoll, Signalling, Waiting, relays
  <2>2. Count(keys') + Count(held') <= Count(keys) + Count(held)
        /\ Count(keys') \in Nat /\ Count(held') \in Nat
    BY <1>2, <1>8, CountNone DEF InputPoll
  <2> QED BY <1>2, <1>3, <2>1, <2>2
<1>9. CASE InputLock
  BY <1>5, <1>9 DEF InputLock
<1>10. CASE InputWrite
  <2>1. Signalling(relay') = Signalling(relay) /\ Waiting(pending', pty') = Waiting(pending, pty) /\ UNCHANGED <<keys, sent>>
    BY <1>10 DEF InputWrite, Signalling, Waiting, relays
  <2>2. got' + Count(held') <= got + Count(held) /\ got' \in Nat /\ Count(held') \in Nat
    <3>1. CASE UNCHANGED <<got, held>>
      BY <1>2, <3>1
    <3>2. CASE held' = <<>> /\ UNCHANGED got
      BY <1>2, <3>2, CountNone
    <3>3. CASE held # <<>> /\ held' = Tail(held) /\ got' = IF Head(held) = "C" THEN got + 1 ELSE got
      <4>1. Tail(held) \in Seq(Chars)
            /\ Count(held) = IF Head(held) = "C" THEN Count(Tail(held)) + 1 ELSE Count(Tail(held))
        BY <1>1, <3>3, CountTail
      <4>2. Count(Tail(held)) \in Nat
        BY <4>1, CountType
      <4> QED BY <1>2, <3>3, <4>1, <4>2
    <3> QED BY <1>10, <3>1, <3>2, <3>3 DEF InputWrite, write_input
  <2> QED BY <1>2, <1>3, <2>1, <2>2
<1>11. CASE Relay
  <2>1. UNCHANGED <<keys, held, sent>>
    BY <1>11 DEF Relay
  <2>2. got' + Signalling(relay') + Waiting(pending', pty') <= got + Signalling(relay) + Waiting(pending, pty) /\ got' \in Nat
    BY <1>2, <1>11 DEF TypeInv, ThreadsType, Relay, Signalling, Waiting, relays, signal_main
  <2> QED BY <1>2, <1>3, <2>1, <2>2
<1>12. CASE GuestStep
  BY <1>5, <1>12 DEF GuestStep
<1>13. CASE Key("x")
  <2>1. Signalling(relay') = Signalling(relay) /\ Waiting(pending', pty') = Waiting(pending, pty) /\ UNCHANGED <<held, sent, got>>
    BY <1>13 DEF Key, Signalling, Waiting, relays
  <2>2. Count(keys') = Count(keys)
    BY <1>1, <1>13, CountAppend DEF Key
  <2> QED BY <1>2, <1>3, <2>1, <2>2
<1>14. CASE Key("C")
  <2>1. Signalling(relay') = Signalling(relay) /\ UNCHANGED held /\ sent' = sent + 1
    BY <1>14 DEF Key, Signalling
  <2>2. CASE keys' = Append(keys, "C") /\ UNCHANGED <<pending, got>>
    <3>1. Waiting(pending', pty') = Waiting(pending, pty)
      BY <1>14, <2>2 DEF Key, Waiting, relays
    <3>2. Count(keys') = Count(keys) + 1
      BY <1>1, <2>2, CountAppend
    <3> QED BY <1>2, <1>3, <2>1, <2>2, <3>1, <3>2
  <2>3. CASE UNCHANGED keys /\ Interrupted("kernel")
             /\ got' = IF ~pty /\ guest = "running" THEN got + 1 ELSE got
    <3>1. got' + Waiting(pending', pty') <= got + Waiting(pending, pty) + 1 /\ got' \in Nat
      BY <1>2, <1>14, <2>3 DEF Key, Interrupted, Waiting, relays
    <3>2. Count(keys') = Count(keys) /\ Count(held') = Count(held)
      BY <2>1, <2>3
    <3> QED BY <1>2, <1>3, <2>1, <3>1, <3>2
  <2> QED BY <1>14, <2>2, <2>3 DEF Key
<1>15. CASE Kill
  <2>1. Signalling(relay') = Signalling(relay) /\ UNCHANGED <<keys, held, got>> /\ sent' = sent + 1
    BY <1>15 DEF Kill, Signalling
  <2>2. Waiting(pending', pty') <= Waiting(pending, pty) + 1
    BY <1>15 DEF Kill, Interrupted, Waiting, relays
  <2> QED BY <1>2, <1>3, <2>1, <2>2
<1>16. CASE EndOfInput \/ Over \/ UNCHANGED vars
  BY <1>5, <1>16 DEF EndOfInput, Over, vars
<1> QED
  BY <1>6, <1>7, <1>8, <1>9, <1>10, <1>11, <1>12, <1>13, <1>14, <1>15, <1>16 DEF Next, Input

-----------------------------------------------------------------------------
LEMMA InitInv == Init => Inv
<1>1. Init => ThreadsType /\ CountersType /\ FlowInv /\ PumpInv /\ PhaseInv /\ JoinInv
  BY DEF Init, ThreadsType, CountersType, FlowInv, PumpInv, PhaseInv, JoinInv
<1>2. Init => QueuesType
  BY CountNone DEF Init, QueuesType
<1>3. Init => CreditInv
  BY CountNone DEF Init, CreditInv, Signalling, Waiting
<1> QED BY <1>1, <1>2, <1>3 DEF Inv, TypeInv

(* The inductive invariant.                                                *)
THEOREM Invariant == Spec => []Inv
<1>1. Inv /\ [Next]_vars => Inv'
  BY ThreadsStep, CountersStep, QueuesStep, OutputStep, PhaseStep, CreditStep DEF Inv, TypeInv
<1> QED BY InitInv, <1>1, PTL DEF Spec

(* finish_pump() and the waiter: when the end of a session is recorded the *)
(* client has all the output and no callback runs, however much the guest  *)
(* wrote, whatever the terminal buffers and whether the deadline passed;   *)
(* except what a guest wrote through a terminal it had closed and opened   *)
(* again after the pump had seen the hang-up.                              *)
THEOREM AllOutputDelivered == Spec => []OutputDelivered
<1>1. Inv => OutputDelivered
  BY DEF Inv, TypeInv, CountersType, FlowInv, PumpInv, OutputDelivered
<1> QED BY <1>1, Invariant, PTL

(* run_command(): on every way out the terminal is as it was and none of   *)
(* the command's and the session's threads is left.                        *)
THEOREM CallerIsRestored == Spec => []CallerRestored
<1>1. Inv => CallerRestored
  BY DEF Inv, PumpInv, PhaseInv, JoinInv, CallerRestored
<1> QED BY <1>1, Invariant, PTL

(* SignalRelay and InputPump: the guest never receives more interrupts     *)
(* than were meant for it, however many are typed or sent.                 *)
THEOREM InterruptsNotDoubled == Spec => []InterruptedOnce
<1>1. Inv => InterruptedOnce
  <2> SUFFICES ASSUME Inv PROVE InterruptedOnce
    OBVIOUS
  <2>1. Count(keys) \in Nat /\ Count(held) \in Nat
    BY CountType DEF Inv, TypeInv, QueuesType
  <2> QED BY <2>1 DEF Inv, TypeInv, CountersType, CreditInv, Signalling, Waiting, InterruptedOnce
<1> QED BY <1>1, Invariant, PTL
=============================================================================
