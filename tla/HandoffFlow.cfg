\* Two handoffs to the same or different paths, one report for each, two names of
\* notes of which one may be taken, one restart; a wait and somebody who asks again.
CONSTANTS
    Calls = {1, 2}
    Paths = {"a", "b"}
    Reports <- MCReports
    Failing <- MCFailing
    Named <- MCNamed
    Readers = {"wait", "refresh"}
    Waits = {"wait"}
    MaxNames = 2
    MaxCrashes = 1
SPECIFICATION Spec
INVARIANTS TypeOK TaskHasItsFiles AnswersAreOfTheCall
PROPERTIES ReportEndsCall
CHECK_DEADLOCK FALSE
