---------------------------- MODULE MCMonitorLoop -----------------------------
(* Small instances of MonitorLoop for TLC. *)
EXTENDS MonitorLoop

Startup == [interval |-> 3, history_limit |-> 2, stale_after_seconds |-> 1]

File(parse, T, section) ==
    [present |-> TRUE, parse |-> parse, targets |-> T, section |-> section]
NoFile == [present |-> FALSE, parse |-> "invalid", targets |-> {}, section |-> Empty]

\* One target; two, with another limit; one of them and a section whose last
\* value is refused; no file.
OverlappingFiles ==
    {File("valid", {"a"}, Empty),
     File("valid", {"a", "b"}, [history_limit |-> 1]),
     File("valid", {"b"}, [history_limit |-> 1, stale_after_seconds |-> 0]),
     NoFile}

\* Targets that replace each other; nothing valid; an infinite port; no file.
ReplacingFiles ==
    {File("valid", {"a"}, Empty),
     File("valid", {"b"}, Empty),
     File("invalid", {"b"}, Empty),
     File("overflow", {"a"}, Empty),
     NoFile}
===============================================================================
