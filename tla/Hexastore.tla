----------------------------- MODULE Hexastore -----------------------------
(***************************************************************************)
(* The write model: tuples under all permutations of their key, in bolt.   *)
(* A subscription to "filteredfeed" collects commands, and every 100 ms    *)
(* update_batch takes what has been collected and executes it in one       *)
(* transaction. Taking and executing are one step here: between the two    *)
(* only the subscription runs, and it adds to the next batch.              *)
(***************************************************************************)
EXTENDS Batches

VARIABLES
    filteredfeed,  \* the stream it subscribes to
    taken,         \* how many of its messages the callback has had
    commands,      \* the slice the callback appends to
    db             \* the bucket: keys to the object of the tuple stored

Perms == {"SPO", "SOP", "PSO", "POS", "OPS", "OSP"}

SPKey(sp)        == <<"SP", sp>>
Key(perm, sp, o) == <<perm, sp, o>>
(* The subject of a tombstone is the old one after a time stamp. *)
TombKey(sp, o)   == <<"TOMBSTONE", sp, o>>

Keys(sp, o) == {Key(perm, sp, o) : perm \in Perms} \cup {SPKey(sp)}

AllKeys == UNION {Keys(sp, o) \cup {TombKey(sp, o)} : sp \in SPs, o \in Objects}

-----------------------------------------------------------------------------
(* update_batch *)

HxCommand(verb, k, o, seq) == [verb |-> verb, key |-> k, val |-> o, seq |-> seq]

cmdStore(c) == {HxCommand("put", k, c.obj, c.seq) : k \in Keys(c.sp, c.obj)}

cmdStoreSingleKey(sp, o, seq) == HxCommand("put", TombKey(sp, o), o, seq)

(* Mutants: the last permutation is forgotten; the verb is not changed. *)
cmdUnstoreMutant(sp, o, seq) ==
    {HxCommand("delete", k, None, seq) : k \in Keys(sp, o) \ {Key("OSP", sp, o)}}
cmdUnstoreVerbMutant(sp, o, seq) ==
    {HxCommand("put", k, None, seq) : k \in Keys(sp, o)}

cmdUnstore(sp, o, seq) == {HxCommand("delete", k, None, seq) : k \in Keys(sp, o)}

(* issuedDelete: the group starts with a delete and the pair has a tuple. *)
Issued(B) == {sp \in Pairs(B) : Deletes(B, sp) /\ SPKey(sp) \in DOMAIN db}

(* Mutant: no tombstone. *)
UnstoreMutant(B, sp) == cmdUnstore(sp, db[SPKey(sp)], First(B, sp).seq)

Unstore(B, sp) ==
    LET old == db[SPKey(sp)]
        seq == First(B, sp).seq
    IN {cmdStoreSingleKey(sp, old, seq)} \cup cmdUnstore(sp, old, seq)

(* The last command puts back the object that the first one deletes. *)
Restores(B, sp) ==
    /\ sp \in Issued(B)
    /\ Last(B, sp).verb = "put" /\ Last(B, sp).obj = db[SPKey(sp)]

(* What "enforce the previous delete" and the put after it come to. *)
Enforced(B, sp) ==
    IF Last(B, sp).verb = "delete" \/ (sp \in Issued(B) /\ ~Restores(B, sp))
    THEN UNION {Unstore(B, x) : x \in Tmp(Issued(B), sp)}
    ELSE {}

Stored(B, sp) ==
    IF Last(B, sp).verb = "put" /\ ~Restores(B, sp) THEN cmdStore(Last(B, sp)) ELSE {}

Out(B) == UNION {Enforced(B, sp) \cup Stored(B, sp) : sp \in Pairs(B)}

(* The commands are executed in the order of key and Sequence, so the last  *)
(* one on a key decides.                                                   *)
Executed(out) ==
    LET on(k)    == {c \in out : c.key = k}
        final(k) == CHOOSE c \in on(k) : \A d \in on(k) : d.seq <= c.seq
        put      == {k \in {c.key : c \in out} : final(k).verb = "put"}
        kept     == {k \in DOMAIN db : on(k) = {}}
    IN [k \in put \cup kept |-> IF k \in put THEN final(k).val ELSE db[k]]

-----------------------------------------------------------------------------
Deliver ==
    /\ taken < Len(filteredfeed)
    /\ commands' = Append(commands, filteredfeed[taken + 1])
    /\ taken' = taken + 1
    /\ UNCHANGED <<filteredfeed, db>>

update_batch ==
    /\ commands # <<>>
    /\ \E out \in {Out(Batch(commands))} : db' = Executed(out)
    /\ commands' = <<>>
    /\ UNCHANGED <<filteredfeed, taken>>

(* The transaction is rolled back. The batch, already out of the slice, is   *)
(* dropped; until the subscription is closed more commands are collected.  *)
update_fails ==
    /\ commands # <<>>
    /\ commands' = <<>>
    /\ UNCHANGED <<filteredfeed, taken, db>>

(* What was collected is lost; the subscription starts from the first message. *)
Restart ==
    /\ taken' = 0
    /\ commands' = <<>>
    /\ UNCHANGED <<filteredfeed, db>>

Init == taken = 0 /\ commands = <<>> /\ db = <<>>

Next == Deliver \/ update_batch \/ update_fails

Idle == taken = Len(filteredfeed) /\ commands = <<>>

current == [sp \in SPs |-> IF SPKey(sp) \in DOMAIN db THEN db[SPKey(sp)] ELSE None]

TypeOK ==
    /\ taken \in 0..Len(filteredfeed) /\ commands \in Seq(Command)
    /\ DOMAIN db \subseteq AllKeys /\ \A k \in DOMAIN db : db[k] \in Objects

=============================================================================
