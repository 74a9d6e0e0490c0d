------------------------------- MODULE IssueBoard -------------------------------
(***************************************************************************)
(* The planning issues of a sprint (planning_publish.py) on GitHub, through*)
(* the command line client (trackers/github_issues.py): one publisher at a *)
(* time, that may be cut short, while people open, close and rename.       *)
(***************************************************************************)
EXTENDS Integers, Sequences, SequencesExt, FiniteSets

CONSTANTS
  Drafts,    \* build_planning_issue_drafts: titles and markers, in order
  ListLimit, \* --limit of gh issue list
  MaxIssues  \* bound on issues

(* The marker of a delivery names its item and not the repository.         *)
ASSUME BoardAssumption ==
  /\ Drafts \in Seq([title : STRING, marker : STRING])
  /\ {ListLimit, MaxIssues} \subseteq Nat

(* A draft has a marker, and no title of those people give.                *)
ASSUME DraftsApart == \A d \in Range(Drafts) : d.title \notin {"other", "renamed"} /\ d.marker # ""

VARIABLES
  issues,   \* in the order of their numbers; no marker: opened by people
  listed,   \* what the publisher read of them
  publisher,\* where it is, and whether it may write
  entries,  \* actions of its result
  cutShort  \* a publisher died or raised between two issues

boardVars == <<issues, listed, publisher, entries, cutShort>>

Titles == {d.title : d \in Range(Drafts)}
Issue ==
  [title : Titles \cup {"other", "renamed"}, marker : {d.marker : d \in Range(Drafts)} \cup {""},
   draft : 0..Len(Drafts), open : BOOLEAN]

BoardTypeOK ==
  /\ issues \in Seq(Issue) /\ Len(issues) <= MaxIssues
  /\ listed \in Seq(Issue)
  /\ publisher.stage \in {"off", "listing", "publishing", "published", "raised"}
  /\ publisher.mode \in {"dry-run", "publish"} /\ publisher.allowed \in BOOLEAN
  /\ entries \in Seq({"created", "existing", "blocked", "dry-run"})
  /\ cutShort \in BOOLEAN

BoardInit ==
  /\ issues = <<>> /\ listed = <<>> /\ entries = <<>>
  /\ publisher = [stage |-> "off", mode |-> "publish", allowed |-> TRUE]
  /\ cutShort = FALSE

------------------------------------------------------------------------------
(* People; the body of an issue is left to the publisher.                  *)
OthersOpen ==
  /\ Len(issues) < MaxIssues
  /\ issues' = Append(issues, [title |-> "other", marker |-> "", draft |-> 0, open |-> TRUE])
  /\ UNCHANGED <<listed, publisher, entries, cutShort>>

OthersClose ==
  /\ \E n \in DOMAIN issues : issues[n].open /\ issues' = [issues EXCEPT ![n].open = FALSE]
  /\ UNCHANGED <<listed, publisher, entries, cutShort>>

OthersRename ==
  /\ \E n \in DOMAIN issues :
       issues[n].title \in Titles /\ issues' = [issues EXCEPT ![n].title = "renamed"]
  /\ UNCHANGED <<listed, publisher, entries, cutShort>>

------------------------------------------------------------------------------
StartPublishing ==
  /\ publisher.stage \in {"off", "published", "raised"}
  /\ \E mode \in {"dry-run", "publish"}, allowed \in BOOLEAN :
       publisher' = [stage |-> "listing", mode |-> mode, allowed |-> allowed]
  /\ entries' = <<>> /\ listed' = <<>>
  /\ UNCHANGED <<issues, cutShort>>

(* Mutant of ListIssues: of the open ones.                                 *)
ListOpenIssues ==
  /\ publisher.stage = "listing"
  /\ listed' = SelectSeq(issues, LAMBDA i : i.open)
  /\ publisher' = [publisher EXCEPT !.stage = "publishing"]
  /\ UNCHANGED <<issues, entries, cutShort>>

(* The newest issues, whatever their state; once per publication.          *)
ListIssues ==
  /\ publisher.stage = "listing"
  /\ listed' = SubSeq(issues, IF Len(issues) > ListLimit THEN Len(issues) - ListLimit + 1 ELSE 1, Len(issues))
  /\ publisher' = [publisher EXCEPT !.stage = "publishing"]
  /\ UNCHANGED <<issues, entries, cutShort>>

Draft == Drafts[Len(entries) + 1]
Existing == \E i \in Range(listed) : i.title = Draft.title \/ i.marker = Draft.marker

Opened == Append(issues, [title |-> Draft.title, marker |-> Draft.marker, draft |-> Len(entries) + 1, open |-> TRUE])

PublishNext ==
  /\ publisher.stage = "publishing" /\ Len(entries) < Len(Drafts)
  /\ \/ Existing /\ entries' = Append(entries, "existing") /\ UNCHANGED issues
     \/ ~Existing /\ publisher.mode = "dry-run" /\ entries' = Append(entries, "dry-run") /\ UNCHANGED issues
     \/ /\ ~Existing /\ publisher.mode = "publish" /\ ~publisher.allowed
        /\ entries' = Append(entries, "blocked") /\ UNCHANGED issues
     \/ /\ ~Existing /\ publisher.mode = "publish" /\ publisher.allowed /\ Len(issues) < MaxIssues
        /\ entries' = Append(entries, "created") /\ issues' = Opened
  /\ UNCHANGED <<listed, publisher, cutShort>>

(* The client fails, or its 60 seconds pass after the issue was opened;    *)
(* the entries are lost with the exception.                                *)
PublishRaises ==
  /\ publisher.stage \in {"listing", "publishing"} /\ Len(entries) < Len(Drafts)
  /\ \/ UNCHANGED issues
     \/ /\ publisher.stage = "publishing" /\ ~Existing /\ publisher.mode = "publish" /\ publisher.allowed
        /\ Len(issues) < MaxIssues /\ issues' = Opened
  /\ publisher' = [publisher EXCEPT !.stage = "raised"]
  /\ entries' = <<>> /\ cutShort' = TRUE
  /\ UNCHANGED listed

PublishEnds ==
  /\ publisher.stage = "publishing" /\ Len(entries) = Len(Drafts)
  /\ publisher' = [publisher EXCEPT !.stage = "published"]
  /\ UNCHANGED <<issues, listed, entries, cutShort>>

BoardNext ==
  \/ OthersOpen \/ OthersClose \/ OthersRename
  \/ StartPublishing \/ ListIssues \/ PublishNext \/ PublishRaises \/ PublishEnds

BoardSpec == BoardInit /\ [][BoardNext]_boardVars

------------------------------------------------------------------------------
(* While the list reaches back to the first issue, a draft is published    *)
(* once: neither a closed issue, nor a new title, nor an answer that was   *)
(* lost makes a second one.  And a publication that was never cut short    *)
(* leaves an issue of its own for each draft it is not told to hold back,  *)
(* two repositories of one item included                                   *)
(* (planning_publish.py:108-179, trackers/github_issues.py:49-66).         *)
PublishedOnce ==
  /\ Len(issues) <= ListLimit =>
       \A d \in DOMAIN Drafts : Cardinality({n \in DOMAIN issues : issues[n].draft = d}) <= 1
  /\ publisher.stage = "published" /\ ~cutShort =>
       \A d \in DOMAIN Drafts :
         entries[d] \in {"created", "existing"} => \E i \in Range(issues) : i.draft = d
================================================================================
