------------------------------- MODULE Coroner -------------------------------
(***************************************************************************)
(* The verdict on one death (culprit/coroner.py), from the evidence that    *)
(* culprit/collectors/forensics.py collects and from the last minute of the *)
(* flight recorder.  Nothing here has state.                                *)
(*                                                                         *)
(* Evidence: journal (readable), previous (the journal knows the boot that  *)
(* died), pstore ("unreadable", "empty" or "files"), markers (a set of      *)
(* records [kind, target]), agent (what systemd wrote of the agent's unit). *)
(* Frames: the figures of the recorder's last minute.  The sentences of a   *)
(* verdict are left out; that there is one at all is not.                   *)
(***************************************************************************)
EXTENDS Integers, Sequences

Unhurt == [n |-> 1, gap |-> 0, mem |-> 50, memStall |-> 0, faults |-> 0,
           ioStall |-> 0, throttle |-> 0]
NoAgentRecord == [note |-> TRUE, oom |-> FALSE, code |-> "none",
                  signal |-> "none", stopped |-> FALSE]

ShutdownKinds == <<"logind_shutdown", "shutdown_notice", "shutdown_request",
                   "shutdown_target">>
Alarming == {"warn", "critical"}

MachineClasses == {"clean_reboot", "clean_poweroff", "kernel_panic", "hardware_error",
                   "lockup", "hang_memory", "thermal", "hang_io", "abrupt_stop"}
AgentClasses == {"agent_oom", "agent_stopped", "agent_killed", "agent_crashed", "agent_died"}

-----------------------------------------------------------------------------
Has(ev, kinds) == \E m \in ev.markers : m.kind \in kinds

\* The shutdown path left a trace in the journal of the boot that ended.
ShutdownRecorded(ev) == \E i \in DOMAIN ShutdownKinds : Has(ev, {ShutdownKinds[i]})

\* The first source, in the order of ShutdownKinds, that says what for.
Target(ev) ==
  LET Says(i) == {m \in ev.markers :
                    m.kind = ShutdownKinds[i] /\ m.target \notin {"none", "shutdown"}}
      telling == {i \in DOMAIN ShutdownKinds : Says(i) # {}}
      first == CHOOSE i \in telling : \A j \in telling : i <= j
  IN  IF telling = {} THEN "shutdown" ELSE (CHOOSE m \in Says(first) : TRUE).target

\* Memory ran out: a kill for it, or the last minute says so.
MemoryDeath(ev, fr) ==
  \/ Has(ev, {"oom_kill", "oom_unit", "memory_exhaustion"})
  \/ fr.mem >= 95 \/ fr.memStall >= 10
  \/ fr.faults >= 500 /\ fr.mem >= 85

StorageDeath(ev, fr) == Has(ev, {"hung_task", "disk_error"}) \/ fr.ioStall >= 30

\* The machine went down with the agent.  A note of the kernel is believed
\* only when no shutdown is on record.
MachineClass(ev, fr) ==
  IF ShutdownRecorded(ev)
  THEN IF Target(ev) \in {"reboot", "kexec"} THEN "clean_reboot" ELSE "clean_poweroff"
  ELSE IF Has(ev, {"panic"}) \/ ev.pstore = "files" THEN "kernel_panic"
  ELSE IF Has(ev, {"mce"}) THEN "hardware_error"
  ELSE IF Has(ev, {"watchdog"}) THEN "lockup"
  ELSE IF MemoryDeath(ev, fr) THEN "hang_memory"
  ELSE IF Has(ev, {"thermal_critical"}) \/ fr.throttle > 0 THEN "thermal"
  ELSE IF StorageDeath(ev, fr) THEN "hang_io"
  ELSE "abrupt_stop"

\* The machine stayed up: what systemd and the kernel wrote of the agent.
AgentClass(ev) ==
  LET a == ev.agent IN
  IF a.oom THEN "agent_oom"
  ELSE IF a.code = "killed"
  THEN IF a.signal \in {"TERM", "INT", "HUP"} THEN "agent_stopped" ELSE "agent_killed"
  ELSE IF a.code \in {"exited", "dumped"} THEN "agent_crashed"
  ELSE IF a.stopped THEN "agent_stopped"
  ELSE "agent_died"

Severity(class) ==
  IF class \in {"clean_reboot", "clean_poweroff", "agent_stopped"} THEN "info"
  ELSE IF class \in {"abrupt_stop", "agent_killed", "agent_crashed", "agent_died"}
  THEN "warn" ELSE "critical"

-----------------------------------------------------------------------------
\* A source that could have changed the class and was not readable.
Unverified(kind, ev) ==
  \/ ~ev.journal
  \/ kind = "machine" /\ ~ev.previous
  \/ ev.pstore = "unreadable"
  \/ kind = "agent" /\ ev.agent.note

\* The frames go on to within half a minute of the death.
RecordedToEnd(fr) == fr.n > 0 /\ fr.gap <= 30

\* Every class but agent_stopped says what it rests on.
Grounded(class, fr) == fr.n > 0 \/ class # "agent_stopped"

Confidence(kind, ev, fr, class) ==
  IF class \in {"abrupt_stop", "agent_died"}
  THEN IF ~RecordedToEnd(fr) THEN "low"
       ELSE IF Unverified(kind, ev) THEN "medium" ELSE "high"
  ELSE IF ~Unverified(kind, ev) THEN "high"
  ELSE IF Grounded(class, fr) THEN "medium" ELSE "low"

Judge(kind, ev, fr) ==
  LET class == IF kind = "machine" THEN MachineClass(ev, fr) ELSE AgentClass(ev)
  IN  [class |-> class, severity |-> Severity(class),
       confidence |-> Confidence(kind, ev, fr, class)]
=============================================================================
