------------------------------ MODULE MCConsole ------------------------------
(* The browser console for TLC.  Its pages share no state but the error list *)
(* and the ribbons of module Console, of which each keeps its own part, so a *)
(* behaviour runs one of the modules, chosen at the start, and leaves the    *)
(* others as they begin.                                                     *)
EXTENDS Console, DisksPage, ServerDetail, LicencesPage, ExclusionsPage, AdSearch, AuditingPage

\* parseInt of the addresses: two name one server, one holds no number.
MCParsedId ==
  [a \in Addresses |-> CASE a \in {"42", "042"} -> "s42" [] a = "7" -> "s7" [] OTHER -> NoId]

VARIABLE page   \* the module this behaviour is about

\* An estate of three disks, one of them of nonprod use, and a demo row.
Disk(i, env, owner, bu, nonprod) ==
  [id |-> i, env |-> env, status |-> "ok", owner |-> owner, bu |-> bu, nonprod |-> nonprod]
MCApiDisks == {Disk(1, "prod", "ann", "uk", FALSE), Disk(2, "prod", "bob", "re", TRUE),
               Disk(3, "dev", "ann", "uk", FALSE)}
MCDemoDisks == {[Disk(9, "prod", "alex", "uk", FALSE) EXCEPT !.status = "crit"]}

pages == <<consoleVars, diskVars, detailVars, licVars, exVars, searchVars, audVars>>
Only(p, others) == page = p /\ UNCHANGED <<page, others>>

MCInit ==
  /\ page \in {"data", "disks", "detail", "licences", "exclusions", "search", "auditing"}
  /\ ConsoleInit /\ DisksInit /\ DetailInit /\ LicencesInit /\ ExclusionsInit
  /\ SearchInit /\ AuditingInit
  \* One beginning is enough for a module that does not run.
  /\ page # "data" => selectedBu = AllBUs
  /\ page # "disks" => railBu = AllOf
  /\ page # "licences" => stored = NoLicence
  /\ page # "search" => picker = "users"
  /\ page # "auditing" => apiApp = NoApp

MCNext ==
  \/ Only("data", <<diskVars, detailVars, licVars, exVars, searchVars, audVars>>) /\ ConsoleNext
  \/ Only("disks", <<consoleVars, detailVars, licVars, exVars, searchVars, audVars>>) /\ DisksNext
  \/ Only("detail", <<consoleVars, diskVars, licVars, exVars, searchVars, audVars>>) /\ DetailNext
  \/ Only("licences", <<consoleVars, diskVars, detailVars, exVars, searchVars, audVars>>) /\ LicencesNext
  \/ Only("exclusions", <<consoleVars, diskVars, detailVars, licVars, searchVars, audVars>>)
       /\ ExclusionsNext
  \/ Only("search", <<consoleVars, diskVars, detailVars, licVars, exVars, audVars>>) /\ SearchNext
  \/ Only("auditing", <<consoleVars, diskVars, detailVars, licVars, exVars, searchVars>>) /\ AuditingNext

MCSpec == MCInit /\ [][MCNext]_<<page, pages>>

\* One type invariant for the seven.
TypeOK ==
  /\ ConsoleTypeOK /\ DisksTypeOK /\ DetailTypeOK /\ LicencesTypeOK /\ ExclusionsTypeOK
  /\ SearchTypeOK /\ AuditingTypeOK

=============================================================================
