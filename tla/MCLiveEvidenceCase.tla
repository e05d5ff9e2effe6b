------------------------ MODULE MCLiveEvidenceCase ------------------------
(* Instances of LiveEvidenceRelease for TLC. *)
EXTENDS LiveEvidenceRelease

\* Every case of the frozen table.
AllCases ==
  Witnesses \cup CanonicalFaults \cup Kills \cup PartialCases \cup SabotageCases
    \cup {"F01", "F02", "F03", "F04a", "F04b", "F05", "F06", "F09", "F10a", "F10b",
          "F17", "F18"}

\* One case of every kind of program, for the runs with mishaps.
KindCases == {"W6", "C01", "F07", "F14", "F16b"}
LeakCases == {"W1"}

===========================================================================
