------------------------------ MODULE Queries ------------------------------
(***************************************************************************)
(* The timetable queries of the web server over the hexastore, each a join *)
(* of lookups by a prefix of the key. Every lookup is a read transaction   *)
(* of its own, and update_batch commits in between.                        *)
(***************************************************************************)
EXTENDS Batches

CONSTANTS
    Pair,   \* what each pair is: its subject, and its predicate
    Asked,  \* the queries that are asked
    Logs    \* the streams "filteredfeed" that there may be

(* The predicates that are looked up whole, and those of the elements of a   *)
(* list: these have the position of the element and a leaf after the path.  *)
Paths == {"TimeTableSubject.SchoolCourseInfoRefId",
          "TimeTableSubject.AcademicYear.Code",
          "TimeTableSubject.AcademicYearRange.Start.Code",
          "TimeTableSubject.AcademicYearRange.End.Code",
          "TeachingGroup.TimeTableSubjectRefId"}
ListPaths == {"SchoolCourseInfo.SubjectAreaList",
              "TeachingGroup.StudentList.TeachingGroupStudent",
              "TeachingGroup.TeacherList.TeachingGroupTeacher"}
Leaves == {"Code", "StudentPersonalRefId", "StaffPersonalRefId", "LocalId"}

Predicate == [path : Paths, item : {0}, leaf : {""}]
             \cup [path : ListPaths, item : Nat, leaf : Leaves]

(* The empty object is 0, and codes of years are numbers. *)
ASSUME QueryAssumption ==
    /\ Pair \in [SPs -> [subject : Objects, predicate : Predicate]]
    /\ \A x, y \in SPs : Pair[x] = Pair[y] => x = y
    /\ Asked \subseteq [for : {"timetablesubject", "teachinggroup", "student", "staff"},
                        kla : Objects, yrlvl : Objects]
    /\ Logs \subseteq Seq(Command)

(* The streams are such as FilterFeed publishes: StreamReplaces in WriteModel. *)
ASSUME StreamAssumption == \A log \in Logs : Numbered(log) /\ Replacing(log)

VARIABLES
    filteredfeed, taken, commands, db,   \* of the hexastore
    pc,          \* where the query is
    query,       \* what it asks
    courses,     \* schoolcourseinfoIds, those still to be looked up
    subjects,    \* timetablesubjects, of the course looked up last
    start,       \* yrlvls1
    found,       \* timetablesubjectIds
    groups,      \* teachinggroupIds
    ret,         \* what the query returns
    held, kept   \* history: the pairs and objects stored at some time, at all times
                 \* since the query was asked

hexaVars == <<filteredfeed, taken, commands, db>>
lists    == <<courses, subjects, start, found, groups>>
vars     == <<hexaVars, pc, query, lists, ret, held, kept>>

Hexa == INSTANCE Hexastore
Seqs == INSTANCE SequencesExt

-----------------------------------------------------------------------------
(* Lookups *)

(* The parts of a key, in their order. The subject of a tombstone is none   *)
(* that a query knows.                                                     *)
Order == [SP  |-> <<"s", "p">>,
          SPO |-> <<"s", "p", "o">>, SOP |-> <<"s", "o", "p">>, PSO |-> <<"p", "s", "o">>,
          POS |-> <<"p", "o", "s">>, OPS |-> <<"o", "p", "s">>, OSP |-> <<"o", "s", "p">>,
          TOMBSTONE |-> <<"stamp">>]

Part(k, x) == CASE x = "s" -> Pair[k[2]].subject
                [] x = "p" -> Pair[k[2]].predicate.path
                [] x = "o" -> k[3]
                [] x = "stamp" -> None

(* A prefix gives the first parts of a key. A path without its closing      *)
(* quote stands for every predicate that starts with it.                   *)
ByPath(path)          == <<[part |-> "p", is |-> path]>>
ByPathObject(path, o) == <<[part |-> "p", is |-> path], [part |-> "o", is |-> o]>>
BySubjectPath(s, path) == <<[part |-> "s", is |-> s], [part |-> "p", is |-> path]>>

HasPrefix(k, prefix) ==
    /\ Len(prefix) <= Len(Order[k[1]])
    /\ \A i \in DOMAIN prefix :
          prefix[i].part = Order[k[1]][i] /\ prefix[i].is = Part(k, prefix[i].part)

(* A tuple is found once for each of its keys that has the prefix.          *)
GetIdentifiers(prefix) == {k \in DOMAIN db : HasPrefix(k, prefix)}

(* Mutant: values without an object are kept. *)
GetTuplesMutant(prefix) == GetIdentifiers(prefix)

GetTuples(prefix) == {k \in GetIdentifiers(prefix) : db[k] # 0}

Ending(keys, leaf) == {k \in keys : Pair[k[2]].predicate.leaf = leaf}

(* Mutant: the pair is taken for its subject. *)
SubjectsMutant(keys) ==
    LET listed == Seqs!SetToSeq(keys)
    IN [i \in DOMAIN listed |-> listed[i][2]]

(* What the tuples found tell, listed in some order: no query looks at it.  *)
Subjects(keys) ==
    LET listed == Seqs!SetToSeq(keys)
    IN [i \in DOMAIN listed |-> Pair[listed[i][2]].subject]

ObjectsOf(keys) ==
    LET listed == Seqs!SetToSeq(keys) IN [i \in DOMAIN listed |-> db[listed[i]]]

-----------------------------------------------------------------------------
(* A query *)

Stored == {[sp |-> sp, obj |-> Hexa!current[sp]] : sp \in {x \in SPs : Hexa!current[x] # None}}

Ask(q) ==
    /\ pc = "idle"
    /\ pc' = "courses" /\ query' = q
    /\ held' = Stored /\ kept' = Stored
    /\ UNCHANGED <<hexaVars, lists, ret>>

FindCourses ==
    /\ pc = "courses"
    /\ LET codes == Ending(GetTuples(ByPath("SchoolCourseInfo.SubjectAreaList")), "Code")
       IN courses' = Subjects({k \in codes : db[k] = query.kla})
    /\ pc' = "subjects"
    /\ UNCHANGED <<hexaVars, query, subjects, start, found, groups, ret, held, kept>>

FindSubjects ==
    /\ pc = "subjects" /\ subjects = <<>> /\ courses # <<>>
    /\ subjects' = Subjects(GetTuples(
           ByPathObject("TimeTableSubject.SchoolCourseInfoRefId", Head(courses))))
    /\ courses' = Tail(courses)
    /\ UNCHANGED <<hexaVars, pc, query, start, found, groups, ret, held, kept>>

(* The loop goes on to the next timetable subject. *)
Decided(yes) ==
    /\ found' = IF yes THEN Append(found, Head(subjects)) ELSE found
    /\ subjects' = Tail(subjects)
    /\ pc' = "subjects"

Years(path) == ObjectsOf(GetTuples(BySubjectPath(Head(subjects), path)))

(* Mutant: there must be one tuple, as for the range. *)
CheckYearMutant ==
    /\ pc = "subjects" /\ subjects # <<>>
    /\ IF Years("TimeTableSubject.AcademicYear.Code") = <<query.yrlvl>>
       THEN Decided(TRUE)
       ELSE pc' = "start" /\ UNCHANGED <<found, subjects>>
    /\ UNCHANGED <<hexaVars, query, courses, start, groups, ret, held, kept>>

CheckYear ==
    /\ pc = "subjects" /\ subjects # <<>>
    /\ IF query.yrlvl \in Seqs!ToSet(Years("TimeTableSubject.AcademicYear.Code"))
       THEN Decided(TRUE)
       ELSE pc' = "start" /\ UNCHANGED <<found, subjects>>
    /\ UNCHANGED <<hexaVars, query, courses, start, groups, ret, held, kept>>

ReadStart ==
    /\ pc = "start"
    /\ start' = Years("TimeTableSubject.AcademicYearRange.Start.Code")
    /\ pc' = "end"
    /\ UNCHANGED <<hexaVars, query, courses, subjects, found, groups, ret, held, kept>>

ReadEnd ==
    /\ pc = "end"
    /\ LET end == Years("TimeTableSubject.AcademicYearRange.End.Code")
       IN Decided(/\ Len(start) = 1 /\ Len(end) = 1
                  /\ start[1] <= query.yrlvl /\ query.yrlvl <= end[1])
    /\ UNCHANGED <<hexaVars, query, courses, start, groups, ret, held, kept>>

(* KLAtoTimeTableSubjectQuery returns. *)
SubjectsFound ==
    /\ pc = "subjects" /\ subjects = <<>> /\ courses = <<>>
    /\ IF query.for = "timetablesubject"
       THEN pc' = "done" /\ ret' = found
       ELSE pc' = "groups" /\ UNCHANGED ret
    /\ UNCHANGED <<hexaVars, query, lists, held, kept>>

FindGroups ==
    /\ pc = "groups" /\ found # <<>>
    /\ groups' = groups \o Subjects(GetTuples(
           ByPathObject("TeachingGroup.TimeTableSubjectRefId", Head(found))))
    /\ found' = Tail(found)
    /\ UNCHANGED <<hexaVars, pc, query, courses, subjects, start, ret, held, kept>>

(* KLAtoTeachingGroupQuery returns. *)
GroupsFound ==
    /\ pc = "groups" /\ found = <<>>
    /\ IF query.for = "teachinggroup"
       THEN pc' = "done" /\ ret' = groups
       ELSE pc' = "members" /\ UNCHANGED ret
    /\ UNCHANGED <<hexaVars, query, lists, held, kept>>

(* The path of the members of a group, and the end of their predicate. *)
Members == [student |-> [path |-> "TeachingGroup.StudentList.TeachingGroupStudent",
                         leaf |-> "StudentPersonalRefId"],
            staff   |-> [path |-> "TeachingGroup.TeacherList.TeachingGroupTeacher",
                         leaf |-> "StaffPersonalRefId"]]

FindMembers ==
    /\ pc = "members" /\ groups # <<>>
    /\ LET m == Members[query.for]
       IN ret' = ret \o ObjectsOf(Ending(GetTuples(BySubjectPath(Head(groups), m.path)), m.leaf))
    /\ groups' = Tail(groups)
    /\ UNCHANGED <<hexaVars, pc, query, courses, subjects, start, found, held, kept>>

Return ==
    /\ pc = "members" /\ groups = <<>>
    /\ pc' = "done"
    /\ UNCHANGED <<hexaVars, query, lists, ret, held, kept>>

-----------------------------------------------------------------------------
Init ==
    /\ filteredfeed \in Logs /\ Hexa!Init
    /\ pc = "idle" /\ query = None
    /\ courses = <<>> /\ subjects = <<>> /\ start = <<>> /\ found = <<>> /\ groups = <<>>
    /\ ret = <<>> /\ held = {} /\ kept = {}

Deliver == Hexa!Deliver /\ UNCHANGED <<pc, query, lists, ret, held, kept>>

update_batch ==
    /\ Hexa!update_batch
    /\ held' = held \cup Stored' /\ kept' = kept \cap Stored'
    /\ UNCHANGED <<pc, query, lists, ret>>

Query ==
    \/ \E q \in Asked : Ask(q)
    \/ FindCourses \/ FindSubjects \/ CheckYear \/ ReadStart \/ ReadEnd \/ SubjectsFound
    \/ FindGroups \/ GroupsFound \/ FindMembers \/ Return

Next == Query \/ Deliver \/ update_batch

Spec == Init /\ [][Next]_vars

-----------------------------------------------------------------------------
(* Properties *)

TypeOK ==
    /\ pc \in {"idle", "courses", "subjects", "start", "end", "groups", "members", "done"}
    /\ pc # "idle" => query \in Asked
    /\ \A s \in {courses, subjects, start, found, groups, ret} : s \in Seq(Objects)
    /\ {held, kept} \subseteq SUBSET [sp : SPs, obj : Objects]

(* "return the GUIDs of all students studying the Learning Area at the Year *)
(* Level. involves joining StudentPersonal, TeachingGroup,                  *)
(* TimeTableSubject, SchoolCourseInfo" (nswdigclass_query.go:12): the join  *)
(* over a set T of tuples, with the year as its code. At(T, path, leaf,  *)
(* O) are the subjects that T relates to a member of O.                    *)
Known(T, path, leaf) == {t \in T : /\ Pair[t.sp].predicate.path = path
                                   /\ Pair[t.sp].predicate.leaf = leaf /\ t.obj # 0}
At(T, path, leaf, O) == {Pair[t.sp].subject : t \in {x \in Known(T, path, leaf) : x.obj \in O}}

Offered(T, q) ==
    At(T, "TimeTableSubject.SchoolCourseInfoRefId", "",
       At(T, "SchoolCourseInfo.SubjectAreaList", "Code", {q.kla}))
    \cap At(T, "TimeTableSubject.AcademicYear.Code", "", {q.yrlvl})

Taught(T, q) == At(T, "TeachingGroup.TimeTableSubjectRefId", "", Offered(T, q))

Answer(T, q) ==
    CASE q.for = "timetablesubject" -> Offered(T, q)
      [] q.for = "teachinggroup"    -> Taught(T, q)
      [] OTHER -> {t.obj : t \in {x \in Known(T, Members[q.for].path, Members[q.for].leaf) :
                                    Pair[x.sp].subject \in Taught(T, q)}}

(* Whoever the tuples that stay put while a query runs make an answer is in *)
(* the answer, whatever else update_batch commits between the lookups.      *)
NothingMissed == pc = "done" => Answer(kept, query) \subseteq Seqs!ToSet(ret)

(* Every answer rests on tuples that were stored at some time while the      *)
(* query ran: deleted ones, and their tombstones, are not found.           *)
NothingInvented == pc = "done" => Seqs!ToSet(ret) \subseteq Answer(held, query)

(* These two fail: see the README. *)
Spanning(T, q) == {s \in Objects : \E x, y \in T :
    /\ Pair[x.sp].subject = s /\ Pair[y.sp].subject = s
    /\ Pair[x.sp].predicate.path = "TimeTableSubject.AcademicYearRange.Start.Code"
    /\ Pair[y.sp].predicate.path = "TimeTableSubject.AcademicYearRange.End.Code"
    /\ x.obj <= q.yrlvl /\ q.yrlvl <= y.obj}

RangesCount == pc = "done" /\ query.for = "timetablesubject" =>
    Spanning(kept, query)
    \cap At(kept, "TimeTableSubject.SchoolCourseInfoRefId", "",
            At(kept, "SchoolCourseInfo.SubjectAreaList", "Code", {query.kla}))
    \subseteq Seqs!ToSet(ret)

NoDuplicates == pc = "done" => \A i, j \in DOMAIN ret : ret[i] = ret[j] => i = j

=============================================================================
