------------------------- MODULE SubscriptionProofs -------------------------
(***************************************************************************)
(* Proofs about Subscription, for every set of kinds, every length of the  *)
(* stream and every number of errors.                                      *)
(***************************************************************************)
EXTENDS Subscription, SequenceTheorems, FiniteSetTheorems, TLAPS

USE KindsAssumption, BoundAssumption

(* A callback that is under way has a message. *)
TypeInv == TypeOK /\ (cb # "idle" => next >= 1)

-----------------------------------------------------------------------------
(* Types *)

LEMMA InitType == Init => TypeInv
<1> SUFFICES ASSUME Init PROVE TypeInv
  OBVIOUS
<1>1. <<>> \in Seq(1..next)
  BY EmptySeq
<1>2. commands \in Seq(1..next) /\ batch \in Seq(1..next) /\ settled \in Seq(1..next)
  BY <1>1 DEF Init
<1>3. next \in 0..Messages
  BY DEF Init
<1> QED
  BY <1>2, <1>3 DEF Init, TypeInv, TypeOK

LEMMA MainType == ASSUME TypeInv, Main PROVE TypeInv'
<1>1. CASE Open
  BY <1>1 DEF Open, TypeInv, TypeOK, passing, batches
<1>2. CASE Subscribed
  BY <1>2 DEF Subscribed, TypeInv, TypeOK, passing, batches
<1>3. CASE SubscribeFails
  BY <1>3 DEF SubscribeFails, TypeInv, TypeOK, passing, batches
<1>4. CASE Receive
  BY <1>4 DEF Receive, TypeInv, TypeOK, passing
<1>5. CASE Unsubscribe
  BY <1>5 DEF Unsubscribe, TypeInv, TypeOK, passing, batches
<1>6. CASE CloseErrc
  BY <1>6 DEF CloseErrc, TypeInv, TypeOK, passing, batches
<1> QED
  BY <1>1, <1>2, <1>3, <1>4, <1>5, <1>6 DEF Main

LEMMA CallbackType == ASSUME TypeInv, Callback PROVE TypeInv'
<1>1. CASE Begin
  <2>1. next \in Nat /\ 1..next \subseteq 1..next'
    BY <1>1 DEF Begin, TypeInv, TypeOK
  <2>2. \A s \in Seq(1..next) : s \in Seq(1..next')
    BY <2>1, SeqMonotonic
  <2>3. next' \in 0..Messages /\ next' >= 1
    BY <1>1 DEF Begin, TypeInv, TypeOK
  <2> QED
    BY <1>1, <2>1, <2>2, <2>3 DEF Begin, TypeInv, TypeOK, channel, passing, batches
<1>2. CASE Ignore
  BY <1>2 DEF Ignore, TypeInv, TypeOK, channel, passing, batches
<1>3. CASE LookupFails
  BY <1>3 DEF LookupFails, TypeInv, TypeOK, channel, passing, batches
<1>4. CASE Pass
  BY <1>4 DEF Pass, Passing, TypeInv, TypeOK, channel, batches
<1>5. CASE PassUnnoticed
  BY <1>5 DEF PassUnnoticed, Passing, TypeInv, TypeOK, channel, batches
<1>6. CASE PassFails
  BY <1>6 DEF PassFails, Passing, TypeInv, TypeOK, channel, batches
<1>7. CASE Count
  BY <1>7 DEF Count, TypeInv, TypeOK, channel, batches
<1>8. CASE Collect
  <2>1. commands' \in Seq(1..next)
    BY <1>8, AppendProperties DEF Collect, TypeInv, TypeOK
  <2> QED
    BY <1>8, <2>1 DEF Collect, TypeInv, TypeOK, channel, passing
<1> QED
  BY <1>1, <1>2, <1>3, <1>4, <1>5, <1>6, <1>7, <1>8 DEF Callback

LEMMA SettleType ==
    ASSUME TypeInv, Settle
    PROVE  settled' \in Seq(1..next) /\ batch' \in Seq(1..next)
BY ConcatProperties, EmptySeq DEF Settle, TypeInv, TypeOK

LEMMA BatchType == ASSUME TypeInv, Batch PROVE TypeInv'
<1>1. CASE Peek
  BY <1>1 DEF Peek, TypeInv, TypeOK, channel, passing
<1>2. CASE Grab
  BY <1>2 DEF Grab, TypeInv, TypeOK, channel, passing
<1>3. CASE Reset
  BY <1>3, EmptySeq DEF Reset, TypeInv, TypeOK, channel, passing
<1>4. CASE Update
  BY <1>4, SettleType DEF Update, Settle, TypeInv, TypeOK, channel, passing
<1>5. CASE UpdateFails
  <2>1. settled' \in Seq(1..next) /\ batch' \in Seq(1..next)
    BY <1>5, SettleType DEF UpdateFails
  <2> QED
    BY <1>5, <2>1 DEF UpdateFails, Settle, TypeInv, TypeOK, channel, passing
<1> QED
  BY <1>1, <1>2, <1>3, <1>4, <1>5 DEF Batch

LEMMA OtherType == ASSUME TypeInv, Break \/ SendOnClosed PROVE TypeInv'
<1>1. CASE Break
  BY <1>1 DEF Break, TypeInv, TypeOK, channel, batches
<1>2. CASE SendOnClosed
  BY <1>2 DEF SendOnClosed, TypeInv, TypeOK, channel, passing, batches
<1> QED
  BY <1>1, <1>2

LEMMA StutterType == ASSUME TypeInv, UNCHANGED vars PROVE TypeInv'
BY DEF vars, TypeInv, TypeOK, channel, passing, batches

LEMMA NextType == TypeInv /\ [Next]_vars => TypeInv'
BY MainType, CallbackType, BatchType, OtherType, StutterType DEF Next

LEMMA TypeInvariant == Spec => []TypeInv
BY InitType, NextType, PTL DEF Spec

(* Every variable keeps its type: errc is open until the last step of the   *)
(* goroutine that subscribes, the lock is only held between taking the     *)
(* commands and resetting them.                                            *)
THEOREM TypeCorrect == Spec => []TypeOK
<1>1. TypeInv => TypeOK
  BY DEF TypeInv
<1> QED
  BY TypeInvariant, <1>1, PTL

-----------------------------------------------------------------------------
(* Errors and their receiver *)

(* Only the callback of a filter or writer reports, or the batch goroutine  *)
(* of a store.                                                             *)
OneSender ==
    /\ kind = "store" => cb \in {"idle", "working"}
    /\ kind # "store" => bg = "idle" /\ commands = <<>>

(* The receive matches the first error: whoever sends later brings another. *)
ErrorsInv ==
    /\ OneSender
    /\ Sending => errors >= 1
    /\ main \in {"blocked", "received", "unsubscribed", "closed"} =>
          errors >= 1 /\ (Sending => errors >= 2)
    /\ panicked => errors >= 2

LEMMA InitErrors == Init => ErrorsInv
BY DEF Init, ErrorsInv, OneSender, Sending

LEMMA MainErrors == ASSUME TypeInv, ErrorsInv, Main PROVE ErrorsInv'
<1> USE DEF TypeInv, TypeOK, ErrorsInv, OneSender, Sending
<1>1. CASE Open
  BY <1>1 DEF Open, batches
<1>2. CASE Subscribed
  BY <1>2 DEF Subscribed, batches
<1>3. CASE SubscribeFails
  BY <1>3 DEF SubscribeFails, batches
<1>4. CASE Receive
  BY <1>4 DEF Receive
<1>5. CASE Unsubscribe
  BY <1>5 DEF Unsubscribe, batches
<1>6. CASE CloseErrc
  BY <1>6 DEF CloseErrc, batches
<1> QED
  BY <1>1, <1>2, <1>3, <1>4, <1>5, <1>6 DEF Main

LEMMA CallbackErrors == ASSUME TypeInv, ErrorsInv, Callback PROVE ErrorsInv'
<1> USE DEF TypeInv, TypeOK, ErrorsInv, OneSender, Sending
<1>1. CASE Begin
  BY <1>1 DEF Begin, channel, batches
<1>2. CASE Ignore
  BY <1>2 DEF Ignore, channel, batches
<1>3. CASE LookupFails
  BY <1>3 DEF LookupFails, channel, batches
<1>4. CASE Pass
  BY <1>4 DEF Pass, Passing, channel, batches
<1>5. CASE PassUnnoticed
  BY <1>5 DEF PassUnnoticed, Passing, channel, batches
<1>6. CASE PassFails
  BY <1>6 DEF PassFails, Passing, channel, batches
<1>7. CASE Count
  BY <1>7 DEF Count, channel, batches
<1>8. CASE Collect
  BY <1>8 DEF Collect, channel
<1> QED
  BY <1>1, <1>2, <1>3, <1>4, <1>5, <1>6, <1>7, <1>8 DEF Callback

LEMMA BatchErrors == ASSUME TypeInv, ErrorsInv, Batch PROVE ErrorsInv'
<1> USE DEF TypeInv, TypeOK, ErrorsInv, OneSender, Sending
<1>1. CASE Peek
  BY <1>1 DEF Peek, channel
<1>2. CASE Grab
  BY <1>2 DEF Grab, channel
<1>3. CASE Reset
  BY <1>3 DEF Reset, channel
<1>4. CASE Update
  BY <1>4 DEF Update, Settle, channel
<1>5. CASE UpdateFails
  BY <1>5 DEF UpdateFails, Settle, channel
<1> QED
  BY <1>1, <1>2, <1>3, <1>4, <1>5 DEF Batch

LEMMA OtherErrors ==
    ASSUME TypeInv, ErrorsInv, Break \/ SendOnClosed \/ UNCHANGED vars
    PROVE  ErrorsInv'
<1>1. CASE Break
  BY <1>1 DEF Break, channel, batches, ErrorsInv, OneSender, Sending
<1>2. CASE SendOnClosed
  <2>1. errors >= 2
    BY <1>2 DEF SendOnClosed, TypeInv, TypeOK, ErrorsInv
  <2> QED
    BY <1>2, <2>1 DEF SendOnClosed, channel, batches, ErrorsInv, OneSender, Sending
<1>3. CASE UNCHANGED vars
  BY <1>3 DEF vars, channel, batches, ErrorsInv, OneSender, Sending
<1> QED
  BY <1>1, <1>2, <1>3

LEMMA NextErrors == TypeInv /\ ErrorsInv /\ [Next]_vars => ErrorsInv'
BY MainErrors, CallbackErrors, BatchErrors, OtherErrors DEF Next

(* The first error of a subscription finds its receiver, and the node dies  *)
(* by a send on the closed channel only if there was a second one. All      *)
(* that is needed is that an error counts from before its send on, and      *)
(* that one goroutine alone reports them.                                  *)
THEOREM OneErrorIsSafe == Spec => []PanicNeedsTwoErrors
<1>1. ErrorsInv => PanicNeedsTwoErrors
  BY DEF ErrorsInv, PanicNeedsTwoErrors
<1> QED
  BY TypeInvariant, InitErrors, NextErrors, <1>1, PTL DEF Spec

-----------------------------------------------------------------------------
(* The commands of a store *)

(* What the batch goroutine has taken is not in the slice any more, except  *)
(* while it holds the lock that keeps the callback from appending.          *)
BatchInv ==
    /\ bg \in {"idle", "seen", "sending"} => batch = <<>>
    /\ bg = "holding" => batch = commands

CommandsInv == BatchInv /\ NothingLost

LEMMA CountUp ==
    ASSUME NEW n \in Nat, n >= 1
    PROVE  Append([i \in 1..(n - 1) |-> i], n) = [i \in 1..n |-> i]
<1> DEFINE s == [i \in 1..(n - 1) |-> i]
           t == [i \in 1..n |-> i]
<1>1. s \in Seq(Nat) /\ t \in Seq(Nat)
  BY IsASeq
<1>2. Len(s) = n - 1 /\ Len(t) = n
  OBVIOUS
<1>3. Append(s, n) \in Seq(Nat) /\ Len(Append(s, n)) = Len(s) + 1
  BY <1>1, AppendProperties
<1>4. \A i \in 1..n : Append(s, n)[i] = t[i]
  BY <1>1, <1>2
<1> QED
  BY <1>1, <1>2, <1>3, <1>4, SeqEqual

LEMMA InitCommands == Init => CommandsInv
<1> SUFFICES ASSUME Init PROVE CommandsInv
  OBVIOUS
<1>1. \A s \in Seq(Nat) : s \o <<>> = s
  BY ConcatEmptySeq
<1>2. <<>> \o <<>> \o <<>> = <<>>
  BY <1>1, EmptySeq
<1>3. [i \in 1..0 |-> i] = <<>>
  OBVIOUS
<1>4. Collected = 0
  BY DEF Init, Collected
<1> QED
  BY <1>2, <1>3, <1>4 DEF Init, CommandsInv, BatchInv, NothingLost

(* A step that leaves the commands alone and collects nothing. *)
LEMMA SameCommands ==
    ASSUME TypeInv, OneSender, CommandsInv, UNCHANGED <<kind, batches>>,
           kind = "store" => Collected' = Collected
    PROVE  CommandsInv'
BY DEF CommandsInv, BatchInv, NothingLost, batches

LEMMA CallbackCommands == ASSUME TypeInv, OneSender, CommandsInv, Callback PROVE CommandsInv'
<1>1. CASE Begin
  <2>1. Collected' = Collected
    BY <1>1 DEF Begin, Collected, TypeInv, TypeOK
  <2> QED
    BY <1>1, <2>1, SameCommands DEF Begin
<1>2. CASE Ignore \/ LookupFails \/ Pass \/ PassUnnoticed \/ PassFails \/ Count
  <2>1. kind # "store"
    BY <1>2 DEF Ignore, LookupFails, Pass, PassUnnoticed, PassFails, Passing, Count,
                OneSender
  <2>2. UNCHANGED <<kind, batches>>
    BY <1>2 DEF Ignore, LookupFails, Pass, PassUnnoticed, PassFails, Count
  <2> QED
    BY <2>1, <2>2, SameCommands
<1>3. CASE Collect
  <2>1. next \in Nat /\ next >= 1 /\ Collected = next - 1 /\ Collected' = next
    BY <1>3 DEF Collect, Collected, TypeInv, TypeOK
  <2>2. batch \in Seq(1..next) /\ settled \in Seq(1..next) /\ commands \in Seq(1..next)
    BY DEF TypeInv, TypeOK
  <2>3. bg # "holding"
    BY <1>3 DEF Collect, TypeInv, TypeOK
  <2> DEFINE s == settled \o batch
  <2>4. s \in Seq(1..next)
    BY <2>2, ConcatProperties
  <2>5. kind = "store" /\ s \o commands = [i \in 1..(next - 1) |-> i]
    BY <1>3, <2>1, <2>3 DEF Collect, CommandsInv, NothingLost
  <2>6. s \o Append(commands, next) = Append(s \o commands, next)
    <3> HIDE DEF s
    <3>1. next \in 1..next
      BY <2>1
    <3>2. Append(commands, next) = commands \o <<next>> /\ <<next>> \in Seq(1..next)
      BY <2>2, <3>1, AppendIsConcat
    <3>3. s \o commands \in Seq(1..next)
      BY <2>2, <2>4, ConcatProperties
    <3>4. Append(s \o commands, next) = (s \o commands) \o <<next>>
      BY <3>1, <3>3, AppendIsConcat
    <3> QED
      BY <2>2, <2>4, <3>2, <3>4, ConcatAssociative
  <2>7. Append([i \in 1..(next - 1) |-> i], next) = [i \in 1..next |-> i]
    BY <2>1, CountUp
  <2> QED
    BY <1>3, <2>1, <2>3, <2>5, <2>6, <2>7
       DEF Collect, CommandsInv, BatchInv, NothingLost
<1> QED
  BY <1>1, <1>2, <1>3 DEF Callback

LEMMA BatchCommands == ASSUME TypeInv, OneSender, CommandsInv, Batch PROVE CommandsInv'
<1>1. Collected' = Collected
  BY DEF Batch, Peek, Grab, Reset, Update, UpdateFails, Settle, Collected
<1>2. /\ batch \in Seq(1..next) /\ settled \in Seq(1..next)
      /\ commands \in Seq(1..next) /\ <<>> \in Seq(1..next)
  BY EmptySeq DEF TypeInv, TypeOK
<1>3. settled \o <<>> = settled
  BY <1>2, ConcatEmptySeq
<1>4. CASE Peek
  BY <1>1, <1>4 DEF Peek, CommandsInv, BatchInv, NothingLost
<1>5. CASE Grab
  BY <1>1, <1>5 DEF Grab, CommandsInv, BatchInv, NothingLost
<1>6. CASE Reset
  <2>1. settled \o batch \in Seq(1..next)
    BY <1>2, ConcatProperties
  <2>2. (settled \o batch) \o <<>> = settled \o batch
    BY <2>1, ConcatEmptySeq
  <2> QED
    BY <1>1, <1>3, <1>6, <2>2 DEF Reset, CommandsInv, BatchInv, NothingLost
<1>7. CASE Update \/ UpdateFails
  <2>1. settled \o batch \in Seq(1..next)
    BY <1>2, ConcatProperties
  <2>2. (settled \o batch) \o <<>> = settled \o batch
    BY <2>1, ConcatEmptySeq
  <2>3. bg = "updating" /\ bg' # "holding" /\ batch' = <<>> /\ settled' = settled \o batch
    BY <1>7 DEF Update, UpdateFails, Settle
  <2> QED
    BY <1>1, <1>7, <2>2, <2>3
       DEF Update, UpdateFails, Settle, CommandsInv, BatchInv, NothingLost
<1> QED
  BY <1>4, <1>5, <1>6, <1>7 DEF Batch

LEMMA OtherCommands ==
    ASSUME TypeInv, OneSender, CommandsInv,
           Main \/ Break \/ SendOnClosed \/ UNCHANGED vars
    PROVE  CommandsInv'
<1>1. CASE Receive
  <2>1. CASE bg = "sending" /\ bg' = "idle" /\ UNCHANGED cb
    BY <1>1, <2>1 DEF Receive, Collected, CommandsInv, BatchInv, NothingLost
  <2>2. CASE cb \in {"reporting", "sending"}
    <3>1. kind # "store"
      BY <2>2 DEF OneSender
    <3> QED
      BY <1>1, <2>2, <3>1 DEF Receive, CommandsInv, BatchInv, NothingLost
  <2> QED
    BY <1>1, <2>1, <2>2 DEF Receive
<1>2. CASE \/ Open \/ Subscribed \/ SubscribeFails \/ Unsubscribe \/ CloseErrc
           \/ Break \/ SendOnClosed \/ UNCHANGED vars
  <2>1. UNCHANGED <<kind, batches, next, cb>>
    BY <1>2 DEF Open, Subscribed, SubscribeFails, Unsubscribe, CloseErrc, Break,
                SendOnClosed, vars
  <2>2. Collected' = Collected
    BY <2>1 DEF Collected
  <2> QED
    BY <2>1, <2>2, SameCommands
<1> QED
  BY <1>1, <1>2 DEF Main

LEMMA NextCommands == TypeInv /\ ErrorsInv /\ CommandsInv /\ [Next]_vars => CommandsInv'
BY CallbackCommands, BatchCommands, OtherCommands DEF Next, ErrorsInv

(* Every command that a store has collected reaches update_batch once and   *)
(* in order, whatever the callback and the batch goroutine interleave: the  *)
(* read of the slice's length without the lock does no harm, the lock is    *)
(* needed from taking the slice to resetting it.                           *)
THEOREM CommandsAreKept == Spec => []NothingLost
<1>1. CommandsInv => NothingLost
  BY DEF CommandsInv
<1> QED
  BY TypeInvariant, InitErrors, NextErrors, InitCommands, NextCommands, <1>1, PTL DEF Spec

-----------------------------------------------------------------------------
(* What is counted and was not passed on *)

(* What may still become counted and not passed on: the message whose error *)
(* is received, and the block that is lost in the buffer.                  *)
Reported == IF cb = "counting" \/ main \in {"subscribing", "waiting"} THEN 1 ELSE 0
Buffered == IF kind = "writer" /\ link # "failing" THEN 1 ELSE 0

ErrorSeen ==
    /\ cb = "counting" => main \notin {"subscribing", "waiting"}
    /\ link = "down" => kind = "writer"

UnsentInv ==
    /\ ErrorSeen
    /\ IsFiniteSet(Unsent)
    /\ Cardinality(Unsent) + Reported + Buffered <= IF kind = "writer" THEN 2 ELSE 1

LEMMA InitUnsent == Init => UnsentInv
BY FS_EmptySet DEF Init, UnsentInv, ErrorSeen, Unsent, Reported, Buffered

(* A step that counts nothing but what it passes on. *)
LEMMA FewerUnsent ==
    ASSUME TypeInv, UnsentInv, Unsent' \subseteq Unsent, kind' = kind,
           Reported' <= Reported, Buffered' <= Buffered,
           ErrorSeen'
    PROVE  UnsentInv'
<1>1. IsFiniteSet(Unsent') /\ Cardinality(Unsent') <= Cardinality(Unsent)
  BY FS_Subset DEF UnsentInv
<1>2. Cardinality(Unsent) \in Nat /\ Cardinality(Unsent') \in Nat
  BY <1>1, FS_CardinalityType DEF UnsentInv
<1>3. {Reported, Buffered, Reported', Buffered'} \subseteq Nat
  BY DEF Reported, Buffered
<1> QED
  BY <1>1, <1>2, <1>3 DEF UnsentInv

LEMMA OneMoreUnsent ==
    ASSUME TypeInv, UnsentInv, Unsent' \subseteq Unsent \cup {next}, kind' = kind,
           Reported' + Buffered' <= Reported + Buffered - 1,
           ErrorSeen'
    PROVE  UnsentInv'
<1> DEFINE more == Unsent \cup {next}
<1>1. IsFiniteSet(Unsent) /\ Cardinality(Unsent) \in Nat
  BY FS_CardinalityType DEF UnsentInv
<1>2. /\ IsFiniteSet(more) /\ Cardinality(more) <= Cardinality(Unsent) + 1
      /\ Cardinality(more) \in Nat
  <2>1. /\ IsFiniteSet(more)
        /\ Cardinality(more) = IF next \in Unsent THEN Cardinality(Unsent)
                               ELSE Cardinality(Unsent) + 1
    BY <1>1, FS_AddElement
  <2> QED
    BY <1>1, <2>1
<1>3. /\ IsFiniteSet(Unsent') /\ Cardinality(Unsent') <= Cardinality(more)
      /\ Cardinality(Unsent') \in Nat
  <2> HIDE DEF more
  <2> QED
    BY <1>2, FS_Subset, FS_CardinalityType DEF more
<1>4. {Reported, Buffered, Reported', Buffered'} \subseteq Nat
  BY DEF Reported, Buffered
<1> QED
  BY <1>1, <1>2, <1>3, <1>4 DEF UnsentInv

LEMMA CallbackUnsent == ASSUME TypeInv, UnsentInv, Callback PROVE UnsentInv'
<1>1. CASE Begin \/ Ignore \/ LookupFails \/ Collect
  <2>1. UNCHANGED <<kind, main, link, out, counted>> /\ cb # "counting" /\ cb' # "counting"
    BY <1>1 DEF Begin, Ignore, LookupFails, Collect, channel, passing
  <2> QED
    BY <2>1, FewerUnsent DEF UnsentInv, ErrorSeen, Unsent, Reported, Buffered
<1>2. CASE Pass
  <2>1. Unsent' \subseteq Unsent
    BY <1>2 DEF Pass, Unsent
  <2>2. UNCHANGED <<kind, main, link>> /\ cb # "counting" /\ cb' # "counting"
    BY <1>2 DEF Pass, Passing, channel
  <2> QED
    BY <2>1, <2>2, FewerUnsent DEF UnsentInv, ErrorSeen, Reported, Buffered
<1>3. CASE PassUnnoticed
  <2>1. Unsent' \subseteq Unsent \cup {next}
    BY <1>3 DEF PassUnnoticed, Unsent
  <2>2. UNCHANGED <<kind, main>> /\ cb # "counting" /\ cb' # "counting"
    BY <1>3 DEF PassUnnoticed, Passing, channel
  <2>3. kind = "writer" /\ Buffered = 1 /\ Buffered' = 0
    BY <1>3 DEF PassUnnoticed, Passing, Buffered, UnsentInv, ErrorSeen
  <2>4. Reported' = Reported /\ Reported \in Nat
    BY <2>2 DEF Reported
  <2> QED
    BY <2>1, <2>2, <2>3, <2>4, OneMoreUnsent DEF UnsentInv, ErrorSeen
<1>4. CASE PassFails
  <2>1. UNCHANGED <<kind, main, out, counted>> /\ cb # "counting" /\ cb' # "counting"
        /\ link' = "failing"
    BY <1>4 DEF PassFails, Passing, channel
  <2> QED
    BY <2>1, FewerUnsent DEF UnsentInv, ErrorSeen, Unsent, Reported, Buffered
<1>5. CASE Count
  <2>1. Unsent' \subseteq Unsent \cup {next}
    BY <1>5 DEF Count, Unsent
  <2>2. UNCHANGED <<kind, main, link>> /\ cb = "counting" /\ cb' # "counting"
    BY <1>5 DEF Count, channel
  <2>3. Reported = 1 /\ Reported' = 0
    BY <2>2 DEF Reported, UnsentInv, ErrorSeen
  <2>4. Buffered' = Buffered /\ Buffered \in Nat
    BY <2>2 DEF Buffered
  <2> QED
    BY <2>1, <2>2, <2>3, <2>4, OneMoreUnsent DEF UnsentInv, ErrorSeen
<1> QED
  BY <1>1, <1>2, <1>3, <1>4, <1>5 DEF Callback

LEMMA OtherUnsent ==
    ASSUME TypeInv, UnsentInv, Main \/ Batch \/ Break \/ SendOnClosed \/ UNCHANGED vars
    PROVE  UnsentInv'
<1>1. CASE Receive
  <2>1. UNCHANGED <<kind, link, out, counted>> /\ main = "waiting" /\ main' = "received"
    BY <1>1 DEF Receive, passing
  <2> QED
    BY <2>1, FewerUnsent DEF UnsentInv, ErrorSeen, Unsent, Reported, Buffered
<1>2. CASE Open \/ Subscribed \/ SubscribeFails \/ Unsubscribe \/ CloseErrc
  <2>1. UNCHANGED <<kind, cb, link, out, counted>>
    BY <1>2 DEF Open, Subscribed, SubscribeFails, Unsubscribe, CloseErrc, passing
  <2>2. main' \in {"subscribing", "waiting"} => main = "subscribing"
    BY <1>2 DEF Open, Subscribed, SubscribeFails, Unsubscribe, CloseErrc
  <2> QED
    BY <2>1, <2>2, FewerUnsent DEF UnsentInv, ErrorSeen, Unsent, Reported, Buffered
<1>3. CASE Batch \/ Break \/ SendOnClosed \/ UNCHANGED vars
  <2>1. UNCHANGED <<kind, main, cb, out, counted>>
        /\ (link' = link \/ (kind = "writer" /\ link' = "down" /\ link = "up"))
    BY <1>3 DEF Batch, Peek, Grab, Reset, Update, UpdateFails, Settle, Break,
                SendOnClosed, vars, channel, passing
  <2> QED
    BY <2>1, FewerUnsent DEF UnsentInv, ErrorSeen, Unsent, Reported, Buffered
<1> QED
  BY <1>1, <1>2, <1>3 DEF Main

LEMMA NextUnsent == TypeInv /\ UnsentInv /\ [Next]_vars => UnsentInv'
BY CallbackUnsent, OtherUnsent DEF Next

(* The sketches count what was not passed on at most once per subscription  *)
(* for the error that ends it, and once more for the block that the writer  *)
(* has in its buffer when the stream is gone.                              *)
THEOREM FewAreUnsent == Spec => []UnsentBounded
<1>1. UnsentInv => UnsentBounded
  <2> SUFFICES ASSUME UnsentInv PROVE UnsentBounded
    OBVIOUS
  <2>1. Cardinality(Unsent) \in Nat /\ Reported \in Nat /\ Buffered \in Nat
    BY FS_CardinalityType DEF UnsentInv, Reported, Buffered
  <2> QED
    BY <2>1 DEF UnsentInv, UnsentBounded
<1> QED
  BY TypeInvariant, InitUnsent, NextUnsent, <1>1, PTL DEF Spec

=============================================================================
