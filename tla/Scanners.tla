------------------------------ MODULE Scanners ------------------------------
(***************************************************************************)
(* What each scanner wrapper (backend/scanners/*_scanner.py) makes of the  *)
(* external program it runs: an error, findings, none, or an exception.    *)
(*                                                                         *)
(* The program (or its credentials, for prowler) is missing, it does not   *)
(* end in time, or it exits with a status and leaves a report: on its      *)
(* standard output, or in a file (zap, prowler).  Only what a wrapper looks*)
(* at is told apart:                                                       *)
(*   "absent"  no file, or nothing on the standard output                  *)
(*   "broken"  not in the format                                           *)
(*   "partial" cut short after findings in the format                      *)
(*   "odd"     in the format, but of a shape its parser trips over         *)
(*   "clean", "issues"  a proper report                                    *)
(***************************************************************************)
EXTENDS Integers

CONSTANT ExitStatuses   \* the exit statuses that occur

ASSUME StatusesAssumption == ExitStatuses \subseteq Int

Wrappers == {"zap", "nuclei", "nmap", "semgrep", "gitleaks", "trivy", "prowler"}

Reports == {"absent", "broken", "partial", "odd", "clean", "issues"}

\* What json.load and the XML parser reject as a whole.
Unreadable == {"broken", "partial"}

Outcomes == [end : {"missing", "timeout"}] \cup
            [end : {"exit"}, status : ExitStatuses, report : Reports]

Results == {"error", "none", "findings", "raises"}

Read(report, quiet) == IF report \in quiet  THEN "none"
                       ELSE IF report = "odd" THEN "raises" ELSE "findings"

\* Mutant: the exit status is not looked at.
Parsed_AnyStatus(o, accepted, refused, quiet) ==
    IF o.end /= "exit" \/ o.report \in refused THEN "error" ELSE Read(o.report, quiet)

\* What they have in common.  They differ in the exit statuses they accept, in
\* the reports they refuse, and in those that count as a scan without findings.
Parsed(o, accepted, refused, quiet) ==
    IF o.end /= "exit" \/ o.status \notin accepted \/ o.report \in refused
    THEN "error"
    ELSE Read(o.report, quiet)

Zap(o) == Parsed(o, ExitStatuses, {"absent"} \cup Unreadable, {"clean"})

\* Lines that are not JSON are skipped, and those that are count.
Nuclei(o) == Parsed(o, {0}, {}, {"absent", "broken", "clean"})

\* XML of any shape is searched for open ports.
Nmap(o) == Parsed(o, {0}, {}, {"absent", "odd", "clean"} \cup Unreadable)

Semgrep(o) == Parsed(o, ExitStatuses, {"absent"} \cup Unreadable, {"clean"})

\* No output means no leaks.
Gitleaks(o) == Parsed(o, ExitStatuses, Unreadable, {"absent", "clean"})

Trivy(o) == Parsed(o, {0, 1}, {}, {"absent", "clean"} \cup Unreadable)

Prowler(o) == Parsed(o, {0, 3}, {"absent"}, {"clean"} \cup Unreadable)

Result(w, o) == CASE w = "zap"      -> Zap(o)
                  [] w = "nuclei"   -> Nuclei(o)
                  [] w = "nmap"     -> Nmap(o)
                  [] w = "semgrep"  -> Semgrep(o)
                  [] w = "gitleaks" -> Gitleaks(o)
                  [] w = "trivy"    -> Trivy(o)
                  [] w = "prowler"  -> Prowler(o)
=============================================================================
