---------------------------- MODULE ContractCheck ---------------------------
(***************************************************************************)
(* firmware-contract-check: load the receipt, resolve the release's tag in *)
(* the firmware checkout, then read the tagged files one git call after    *)
(* the other and compare what they say.  Somebody else may move the tag    *)
(* meanwhile, and works on other contents in the checkout; any git call    *)
(* may fail.  All errors but those of the receipt end in one message,      *)
(* "firmware contract drift".                                              *)
(*                                                                         *)
(* Of every fact there are two values, the one the client was written for  *)
(* and another.                                                            *)
(***************************************************************************)
EXTENDS ContractFacts

CONSTANTS
  Differences, \* the ways the receipt and the two revisions may differ from the client
  MaxMoves     \* bound on the times the tag is moved

Revision == {"one", "two"}
ASSUME DifferencesAssumption ==
  Differences \subseteq [{"receipt"} \cup Revision -> SUBSET (Facts \cup Unseen)]

VARIABLES
  differs,  \* the facts in which the receipt and each revision differ
  tag,      \* the revision the tag names, "none" when there is no such tag
  named,    \* the revisions it has named since the checker resolved it
  moves,    \* bounded by MaxMoves
  pos,      \* the look that is next
  readAt,   \* the revision each file was read from, "unread" before
  compared, \* <<file, revision>> of the contents compared
  failed,   \* a git call has failed
  outcome   \* "start", "looking", "rejected", "drift" or "match"

contractVars == <<differs, tag, named, moves, pos, readAt, compared, failed, outcome>>

File == {Looks[i].file : i \in DOMAIN Looks}

Expected == "client"
Firmware(rev, fact) ==
  IF rev = "worktree" THEN "unfinished" ELSE IF fact \in differs[rev] THEN "other" ELSE Expected
Recording(fact) == IF fact \in differs["receipt"] THEN "other" ELSE Expected

ContractIdle ==
  /\ differs = [r \in {"receipt"} \cup Revision |-> {}]
  /\ tag = "none" /\ named = {} /\ moves = 0 /\ pos = 1 /\ readAt = <<>>
  /\ compared = {} /\ failed = FALSE /\ outcome = "none"
ContractInit ==
  /\ differs \in Differences
  /\ tag \in Revision \cup {"none"} /\ named = {} /\ moves = 0
  /\ pos = 1 /\ readAt = [f \in File |-> "unread"]
  /\ compared = {} /\ failed = FALSE /\ outcome = "start"

-----------------------------------------------------------------------------
\* Fault: contents come from the checkout.
revisionOfHEAD == "worktree"

Validate == differs["receipt"] \cap Pinned = {}

\* LoadContractFile, then newTaggedFirmwareSource: git rev-parse fails when there
\* is no such tag, and may fail otherwise.  checkFirmware returns its error.
Load ==
  /\ outcome = "start"
  /\ outcome' \in IF ~Validate THEN {"rejected"}
                   ELSE IF tag = "none" THEN {"drift"} ELSE {"looking", "drift"}
  /\ failed' = (outcome' = "drift")
  /\ named' = IF outcome' = "looking" THEN {tag} ELSE {}
  /\ UNCHANGED <<differs, tag, moves, pos, readAt, compared>>

\* git show of refs/tags/<release>:<file>, whatever HEAD is.
revision == tag

\* readFile: each file is read once.
readFile(file) == IF readAt[file] = "unread" THEN revision ELSE readAt[file]

Agrees(look, rev) ==
  \A f \in look.facts :
    Firmware(rev, f) = IF look.by = "receipt" THEN Recording(f) ELSE Expected

\* One look of checkFirmware and its stages; the first disagreement ends it.
\* ls-tree asks for assets/proto without readFile, once.
Compare ==
  /\ outcome = "looking"
  /\ LET look == Looks[pos]
         rev == readFile(look.file)
     IN /\ readAt' = [readAt EXCEPT ![look.file] = rev]
        /\ compared' = compared \cup {<<look.file, rev>>}
        /\ outcome' = IF ~Agrees(look, rev) THEN "drift"
                      ELSE IF pos = Len(Looks) THEN "match" ELSE "looking"
  /\ pos' = pos + 1
  /\ UNCHANGED <<differs, tag, named, moves, failed>>

\* git show or ls-tree fails: the look's error is checkFirmware's.
GitFails ==
  /\ outcome = "looking" /\ readAt[Looks[pos].file] = "unread"
  /\ failed' = TRUE /\ outcome' = "drift"
  /\ UNCHANGED <<differs, tag, named, moves, pos, readAt, compared>>

MoveTag ==
  /\ outcome \in {"start", "looking"} /\ tag # "none" /\ moves < MaxMoves /\ moves' = moves + 1
  /\ \E rev \in Revision \ {tag} :
       tag' = rev /\ named' = IF outcome = "looking" THEN named \cup {rev} ELSE named
  /\ UNCHANGED <<differs, pos, readAt, compared, failed, outcome>>

ContractNext == Load \/ Compare \/ GitFails \/ MoveTag

-----------------------------------------------------------------------------
\* What the checker has established of the contents it compared: each fact has
\* the client's value when the checker or Validate knows it, and the receipt's
\* value when only the receipt records it.
Holds(look, rev) ==
  \A f \in look.facts :
    Firmware(rev, f) = IF look.by = "receipt" /\ f \notin Pinned THEN Recording(f) ELSE Expected

\* The verdict is true.  "firmware contract matches": no git call failed and every
\* fact looked for holds, in contents the tag named while the checker ran; each file
\* is judged as a whole, by one revision, even when the tag moves; and when it does
\* not move the tagged release has them all.  (When it moves, a match may be of files
\* of two commits, neither of which has every fact.)  "firmware contract drift": a
\* git call failed, the one that resolves the tag included, or contents read at the
\* tag, whatever the checkout's branch and working tree hold, disagree with the
\* receipt or the client (LoadContractFile, newTaggedFirmwareSource, readFile,
\* checkFirmware).
VerdictIsTrue ==
  /\ outcome = "match" =>
       /\ ~failed
       /\ \A i \in DOMAIN Looks :
            \E rev \in named : <<Looks[i].file, rev>> \in compared /\ Holds(Looks[i], rev)
       /\ \A f \in File : Cardinality({u \in compared : u[1] = f}) = 1
       /\ Cardinality(named) = 1 => \A i \in DOMAIN Looks : Holds(Looks[i], tag)
  /\ outcome = "drift" =>
       \/ failed
       \/ \E i \in DOMAIN Looks, rev \in named :
            <<Looks[i].file, rev>> \in compared /\ ~Agrees(Looks[i], rev)
=============================================================================
