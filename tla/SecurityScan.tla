----------------------------- MODULE SecurityScan -----------------------------
(***************************************************************************)
(* SecurityReviewer of src/sendsprint/agents/security_reviewer.py: what    *)
(* the scanners make of a working tree, as functions of what they find.    *)
(* A dependency is given by the fields of its advisory the code looks at.  *)
(***************************************************************************)
EXTENDS Naturals, Sequences

CONSTANT MaxDepFindings  \* MAX_DEP_FINDINGS

ASSUME ScanAssumption == MaxDepFindings \in Nat \ {0}

Severity == {"low", "medium", "high", "critical"}

(* Of the files that are neither ignored, nor large, nor of an unknown     *)
(* suffix, a line that matches a pattern is a finding.                     *)
SecretFindings(files) ==
  {"high" : f \in {g \in files : g.kind = "source" /\ ~g.ignoredDir /\ ~g.large /\ g.secret}}

(* .gitignore is searched for the text ".env", so one entry clears all.    *)
EnvFindings(files, gitignore) ==
  {"medium" : f \in {g \in files : g.kind = "env" /\ ~g.ignoredDir /\ ~gitignore}}

(* An audit tool that is missing, times out, succeeds or prints no JSON    *)
(* finds nothing.                                                          *)
Speaks(tool) == tool.ends = "nonzero" /\ tool.json

FirstFindings(list) == {list[n] : n \in {m \in DOMAIN list : m <= MaxDepFindings}}

NpmSeverity(raw) == IF raw = "moderate" \/ raw \notin Severity THEN "medium" ELSE raw
PipSeverity(raw) == IF raw = "fixable" THEN "high" ELSE "medium"
CargoSeverity(raw) == IF raw \in Severity THEN raw ELSE "high"

Audited(tool) == IF Speaks(tool) THEN FirstFindings(tool.list) ELSE {}

DependencyFindings(tools) ==
  {NpmSeverity(raw) : raw \in Audited(tools.npm)}
    \cup {PipSeverity(raw) : raw \in Audited(tools.pip)}
    \cup {CargoSeverity(raw) : raw \in Audited(tools.cargo)}

Findings(tree) ==
  SecretFindings(tree.files) \cup EnvFindings(tree.files, tree.gitignore)
    \cup DependencyFindings(tree.tools)

ScanStatus(tree) == IF Findings(tree) \cap {"high", "critical"} = {} THEN "ok" ELSE "failed"
===============================================================================
