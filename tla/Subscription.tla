---------------------------- MODULE Subscription ----------------------------
(***************************************************************************)
(* The life of a subscription: a goroutine subscribes and waits on the      *)
(* unbuffered channel errc, the broker's client calls back one message at   *)
(* a time, and in the stores a third goroutine executes what the callback   *)
(* has collected. Five functions are built in this way: FilterFeed, the     *)
(* three ConnectToFeed and createOutboundWriter.                           *)
(*                                                                         *)
(* A message is its number in the stream. What a message makes the callback *)
(* do is any choice the code has: whether the filter commits the tuple and  *)
(* whether the writer sends the block is FilterFeed's and SyncProtocol's.   *)
(***************************************************************************)
EXTENDS Naturals, Sequences, FiniteSets

CONSTANTS
    Kinds,      \* the kinds of subscription: a subset of {"filter", "writer", "store"}
    Messages,   \* bound: the length of the stream
    MaxErrors   \* bound: calls that fail, besides those on a broken link

ASSUME KindsAssumption == Kinds \subseteq {"filter", "writer", "store"}
ASSUME BoundAssumption == {Messages, MaxErrors} \subseteq Nat

VARIABLES
    kind,       \* one of Kinds, never changes
    main,       \* where the goroutine that subscribes is
    errc,       \* "open" or "closed"
    sub,        \* the subscription: "none", "open" or "closed"
    next,       \* how many messages the callback has been given
    cb,         \* where the callback is
    link,       \* filter: "failing" once err is set; writer: the stream
    out,        \* messages published on filteredfeed, or sent to the peer
    counted,    \* messages the sketch has counted (hexaCMS, msgCMS)
    commands,   \* the slice the callback of a store appends to
    batch,      \* commands1 of the batch goroutine
    bg,         \* where the batch goroutine is
    mutex,      \* "free", or "bg" while the batch goroutine holds it
    settled,    \* history: commands of the batches update_batch was given
    errors,     \* history: how many errors there were to report
    panicked    \* a send on the closed errc has ended the process

channel == <<main, errc, sub>>
passing == <<link, out, counted>>
batches == <<commands, batch, bg, mutex, settled>>
vars    == <<kind, channel, next, cb, passing, batches, errors, panicked>>

Init ==
    /\ kind \in Kinds
    /\ main = "subscribing" /\ errc = "open" /\ sub = "none"
    /\ next = 0 /\ cb = "idle"
    /\ link = "up" /\ out = {} /\ counted = {}
    /\ commands = <<>> /\ batch = <<>> /\ bg = "idle" /\ mutex = "free"
    /\ settled = <<>>
    /\ errors = 0 /\ panicked = FALSE

-----------------------------------------------------------------------------
(* The goroutine that subscribes *)

(* Messages are delivered before Subscribe has returned. *)
Open ==
    /\ main = "subscribing" /\ sub = "none"
    /\ sub' = "open"
    /\ UNCHANGED <<kind, main, errc, next, cb, passing, batches, errors, panicked>>

Subscribed ==
    /\ main = "subscribing" /\ sub = "open"
    /\ main' = "waiting"
    /\ UNCHANGED <<kind, errc, sub, next, cb, passing, batches, errors, panicked>>

(* The writer returns, and the deferred close(errc) runs. The others send   *)
(* the error on errc, whose only receiver is the next statement.           *)
SubscribeFails ==
    /\ main = "subscribing" /\ errors < MaxErrors
    /\ sub' = "closed"
    /\ main' = IF kind = "writer" THEN "unsubscribed" ELSE "blocked"
    /\ errors' = errors + 1
    /\ UNCHANGED <<kind, errc, next, cb, passing, batches, panicked>>

(* Mutants: the wait has a default case; errors are logged in a loop. *)
ReceiveMutant ==
    /\ main = "waiting"
    /\ main' = "received"
    /\ UNCHANGED <<kind, errc, sub, next, cb, passing, batches, errors, panicked>>
ReceiveInLoopMutant ==
    /\ main = "waiting"
    /\ cb = "sending" /\ cb' = "counting"
    /\ UNCHANGED <<kind, channel, next, passing, batches, errors, panicked>>

(* The receive on errc, with the send of the callback or of the batch       *)
(* goroutine.                                                              *)
Receive ==
    /\ main = "waiting"
    /\ main' = "received"
    /\ \/ cb = "reporting" /\ cb' = "committing" /\ UNCHANGED bg
       \/ cb = "sending" /\ cb' = "counting" /\ UNCHANGED bg
       \/ bg = "sending" /\ bg' = "idle" /\ UNCHANGED cb
    /\ UNCHANGED <<kind, errc, sub, next, passing, commands, batch, mutex, settled,
                   errors, panicked>>

(* Mutant: Close waits for the callback. *)
UnsubscribeMutant ==
    /\ main = "received" /\ cb = "idle"
    /\ main' = "unsubscribed" /\ sub' = "closed"
    /\ UNCHANGED <<kind, errc, next, cb, passing, batches, errors, panicked>>

(* sub.Close and the deferred sc.Close: no call of the callback begins any  *)
(* more, one that is under way goes on.                                    *)
Unsubscribe ==
    /\ main = "received"
    /\ main' = "unsubscribed" /\ sub' = "closed"
    /\ UNCHANGED <<kind, errc, next, cb, passing, batches, errors, panicked>>

(* Mutant: errc is not closed. *)
CloseErrcMutant ==
    /\ main = "unsubscribed"
    /\ main' = "closed"
    /\ UNCHANGED <<kind, errc, sub, next, cb, passing, batches, errors, panicked>>

CloseErrc ==
    /\ main = "unsubscribed"
    /\ main' = "closed" /\ errc' = "closed"
    /\ UNCHANGED <<kind, sub, next, cb, passing, batches, errors, panicked>>

Sending == cb \in {"reporting", "sending"} \/ bg = "sending"

(* A send on errc panics if it is closed, or is closed while the sender     *)
(* waits; nothing recovers it.                                             *)
SendOnClosed ==
    /\ errc = "closed" /\ Sending
    /\ panicked' = TRUE
    /\ UNCHANGED <<kind, channel, next, cb, passing, batches, errors>>

-----------------------------------------------------------------------------
(* The callback *)

Begin ==
    /\ sub = "open" /\ cb = "idle" /\ next < Messages
    /\ next' = next + 1
    /\ cb' = "working"
    /\ UNCHANGED <<kind, channel, passing, batches, errors, panicked>>

(* The tuple is not committed; the block is not for this peer. *)
Ignore ==
    /\ kind \in {"filter", "writer"} /\ cb = "working"
    /\ cb' = "idle"
    /\ UNCHANGED <<kind, channel, next, passing, batches, errors, panicked>>

(* For equal versions the filter reads the database. If that fails it       *)
(* reports, and goes on as if there were no entry. The lookup returns the   *)
(* err that an earlier failure has left.                                   *)
LookupFails ==
    /\ kind = "filter" /\ cb = "working"
    /\ errors < MaxErrors \/ link = "failing"
    /\ cb' = "reporting"
    /\ errors' = errors + 1
    /\ UNCHANGED <<kind, channel, next, passing, batches, panicked>>

Passing == kind \in {"filter", "writer"} /\ cb \in {"working", "committing"}

Pass ==
    /\ Passing /\ link = "up"
    /\ out' = out \cup {next}
    /\ counted' = counted \cup {next}
    /\ cb' = "idle"
    /\ UNCHANGED <<kind, channel, next, link, batches, errors, panicked>>

(* The stream is gone: the block stays in the buffer, and sendBlock drops   *)
(* the error of Flush.                                                     *)
PassUnnoticed ==
    /\ Passing /\ link = "down"
    /\ link' = "failing"
    /\ counted' = counted \cup {next}
    /\ cb' = "idle"
    /\ UNCHANGED <<kind, channel, next, out, batches, errors, panicked>>

(* Publish returns an error, and err keeps it: the filter publishes nothing *)
(* from then on. The writer's Encode keeps failing in the same way.         *)
PassFails ==
    /\ Passing
    /\ link = "failing" \/ (kind = "filter" /\ errors < MaxErrors)
    /\ link' = "failing"
    /\ cb' = "sending"
    /\ errors' = errors + 1
    /\ UNCHANGED <<kind, channel, next, out, counted, batches, panicked>>

(* hexaCMS.Update and msgCMS.Update follow the send on errc. *)
Count ==
    /\ cb = "counting"
    /\ counted' = counted \cup {next}
    /\ cb' = "idle"
    /\ UNCHANGED <<kind, channel, next, link, out, batches, errors, panicked>>

Break ==
    /\ kind = "writer" /\ link = "up"
    /\ link' = "down"
    /\ UNCHANGED <<kind, channel, next, cb, out, counted, batches, errors, panicked>>

(* Mutant: no lock. *)
CollectMutant ==
    /\ kind = "store" /\ cb = "working"
    /\ commands' = Append(commands, next)
    /\ cb' = "idle"
    /\ UNCHANGED <<kind, channel, next, passing, batch, bg, mutex, settled, errors, panicked>>

Collect ==
    /\ kind = "store" /\ cb = "working" /\ mutex = "free"
    /\ commands' = Append(commands, next)
    /\ cb' = "idle"
    /\ UNCHANGED <<kind, channel, next, passing, batch, bg, mutex, settled, errors, panicked>>

-----------------------------------------------------------------------------
(* The batch goroutine of a store, an endless loop that nobody stops *)

(* The length is read without the lock; a read that misses an append is     *)
(* made again 100 ms later.                                                *)
Peek ==
    /\ bg = "idle" /\ commands # <<>>
    /\ bg' = "seen"
    /\ UNCHANGED <<kind, channel, next, cb, passing, commands, batch, mutex, settled,
                   errors, panicked>>

Grab ==
    /\ bg = "seen" /\ mutex = "free"
    /\ mutex' = "bg"
    /\ batch' = commands
    /\ bg' = "holding"
    /\ UNCHANGED <<kind, channel, next, cb, passing, commands, settled, errors, panicked>>

(* Mutant: a return path without Unlock. *)
ResetMutant ==
    /\ bg = "holding"
    /\ commands' = <<>>
    /\ bg' = "updating"
    /\ UNCHANGED <<kind, channel, next, cb, passing, batch, mutex, settled, errors, panicked>>

Reset ==
    /\ bg = "holding"
    /\ commands' = <<>>
    /\ mutex' = "free"
    /\ bg' = "updating"
    /\ UNCHANGED <<kind, channel, next, cb, passing, batch, settled, errors, panicked>>

Settle ==
    /\ bg = "updating"
    /\ settled' = settled \o batch
    /\ batch' = <<>>
    /\ UNCHANGED <<kind, channel, next, cb, passing, commands, mutex, panicked>>

Update == Settle /\ bg' = "idle" /\ UNCHANGED errors

(* The transaction is rolled back: the batch has no effect and is dropped. *)
UpdateFails ==
    /\ errors < MaxErrors
    /\ Settle
    /\ bg' = "sending" /\ errors' = errors + 1

-----------------------------------------------------------------------------
Main     == Open \/ Subscribed \/ SubscribeFails \/ Receive \/ Unsubscribe \/ CloseErrc
Callback == \/ Begin \/ Ignore \/ LookupFails \/ Pass \/ PassUnnoticed \/ PassFails
            \/ Count \/ Collect
Batch    == Peek \/ Grab \/ Reset \/ Update \/ UpdateFails

Next == ~panicked /\ (Main \/ Callback \/ Batch \/ Break \/ SendOnClosed)

Spec == Init /\ [][Next]_vars

(* The goroutines are scheduled, and the broker delivers. *)
FairSpec ==
    /\ Spec
    /\ WF_vars(~panicked /\ Main) /\ WF_vars(~panicked /\ Callback)
    /\ WF_vars(~panicked /\ Batch) /\ WF_vars(~panicked /\ SendOnClosed)

-----------------------------------------------------------------------------
(* Properties *)

(* Every variable has its type; errc is closed by the last step of main,    *)
(* and the lock is held between taking the commands and resetting them.     *)
TypeOK ==
    /\ kind \in Kinds
    /\ main \in {"subscribing", "blocked", "waiting", "received", "unsubscribed", "closed"}
    /\ errc = IF main = "closed" THEN "closed" ELSE "open"
    /\ sub \in {"none", "open", "closed"}
    /\ next \in 0..Messages
    /\ cb \in {"idle", "working", "reporting", "committing", "sending", "counting"}
    /\ link \in {"up", "down", "failing"}
    /\ out \subseteq 1..next /\ counted \subseteq 1..next
    /\ commands \in Seq(1..next) /\ batch \in Seq(1..next) /\ settled \in Seq(1..next)
    /\ bg \in {"idle", "seen", "holding", "updating", "sending"}
    /\ mutex = IF bg = "holding" THEN "bg" ELSE "free"
    /\ errors \in Nat /\ panicked \in BOOLEAN

(* "Filteredfeed is a write-ahead log" (n3.go:149): every command reaches    *)
(* update_batch once and in order, although the callback appends to the     *)
(* slice while the batch goroutine looks at it, takes it and resets it.     *)
Collected    == IF cb = "working" THEN next - 1 ELSE next
NothingLost  == kind = "store" =>
    settled \o (IF bg = "holding" THEN <<>> ELSE batch) \o commands
       = [i \in 1..Collected |-> i]

(* "register that we've sent this message to this peer" (sync.go:180) and   *)
(* "frequency increment" (filterfeed.go:193) come after an error too. As    *)
(* the error ends the subscription, the filter counts one tuple that it     *)
(* has not published, and the writer two blocks that it has not sent: one   *)
(* lost in the buffer and one whose error it saw.                          *)
Unsent        == counted \ out
UnsentBounded == Cardinality(Unsent) <= IF kind = "writer" THEN 2 ELSE 1

(* "wait for errors on reading feed or committing tuples" (filterfeed.go:   *)
(* 203): the first error finds its receiver. The node dies by a send on     *)
(* the closed channel only if there was a second one.                      *)
PanicNeedsTwoErrors == panicked => errors >= 2

(* An error ends the subscription, whatever the callback and the batches do *)
(* meanwhile, unless Subscribe itself has failed.                          *)
ErrorEnds == Sending ~> main \in {"closed", "blocked"} \/ panicked

(* A command that was collected is given to update_batch, also after the    *)
(* subscription has ended: the batch goroutine is never stuck.             *)
CommandsSettle == \A i \in 1..Messages : 
    (kind = "store" /\ i <= next) ~>
        (i \in {settled[j] : j \in DOMAIN settled} \/ main = "blocked" \/ panicked)

(* These two fail: see the README. *)
ErrorsAreReceived == main = "blocked" ~> main # "blocked"
NoPanic           == ~panicked

=============================================================================
