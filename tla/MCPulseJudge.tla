---------------------------- MODULE MCPulseJudge ----------------------------
(* Small instances of PulseJudge: what each subject may be read as, and     *)
(* which of them the Outage Doctor or the hour may set aside.               *)
EXTENDS PulseJudge

\* A listener idles, is active under its line, twitches to the line, or is busy;
\* the network idles or is busy.
FewReadings == [s \in Subjects |-> IF s = Net THEN {0, 4} ELSE {0, 1, 2, 4}]
AnyListener == {{}, Listeners}
=============================================================================
