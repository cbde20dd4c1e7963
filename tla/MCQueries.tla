----------------------------- MODULE MCQueries -----------------------------
(* Instances of Queries for TLC. *)
EXTENDS Queries

P(s, path, item, leaf) == [subject |-> s, predicate |-> [path |-> path, item |-> item, leaf |-> leaf]]

(* A course 11, its timetable subject 21, a teaching group 31 with students *)
(* and a teacher. 10 is a learning area, 7 to 9 are years.                  *)
SomePairs == <<
    P(11, "SchoolCourseInfo.SubjectAreaList", 0, "Code"),
    P(21, "TimeTableSubject.SchoolCourseInfoRefId", 0, ""),
    P(21, "TimeTableSubject.AcademicYear.Code", 0, ""),
    P(31, "TeachingGroup.TimeTableSubjectRefId", 0, ""),
    P(31, "TeachingGroup.StudentList.TeachingGroupStudent", 0, "StudentPersonalRefId"),
    P(31, "TeachingGroup.StudentList.TeachingGroupStudent", 0, "LocalId"),
    P(31, "TeachingGroup.TeacherList.TeachingGroupTeacher", 0, "StaffPersonalRefId"),
    P(21, "TimeTableSubject.AcademicYearRange.Start.Code", 0, ""),
    P(21, "TimeTableSubject.AcademicYearRange.End.Code", 0, "")>>

Put(sp, o, i)    == [verb |-> "put", sp |-> sp, obj |-> o, seq |-> 2 * i + 1]
Delete(sp, o, i) == [verb |-> "delete", sp |-> sp, obj |-> o, seq |-> 2 * i]
Update(sp, o, i) == <<Delete(sp, o, i), Put(sp, o, i)>>

Linked == <<Put(1, 10, 1), Put(2, 11, 2), Put(4, 21, 3)>>

(* A student leaves and another one comes; the timetable subject changes    *)
(* year and course, and is back; its year is given as a range.             *)
SomeLogs == {Linked \o <<Put(3, 7, 4), Put(5, 41, 5), Put(6, 42, 6)>>
                    \o Update(5, 0, 7) \o Update(5, 43, 8),
             Linked \o <<Put(3, 7, 4), Put(7, 51, 5)>>
                    \o Update(3, 8, 6) \o Update(2, 12, 7) \o Update(3, 7, 8),
             Linked \o <<Put(8, 7, 4), Put(9, 9, 5), Put(5, 41, 6)>>}

SomeAsked == [for : {"timetablesubject", "teachinggroup", "student", "staff"},
              kla : {10}, yrlvl : {7, 8}]

=============================================================================
