------------------------------ MODULE RuleList ------------------------------
(***************************************************************************)
(* The rules of ProxyBridge.c: a linked list that the user interface edits *)
(* (ProxyBridge_AddRule ... ProxyBridge_MoveRuleToPosition) while the      *)
(* packet thread walks it (match_rule), with no lock, and the flag         *)
(* g_has_active_rules that lets the packet thread skip the walk.           *)
(* Each step is a store or a read the other thread can be interleaved      *)
(* with.  A rule's lists of hosts and ports are one filter; what it says   *)
(* of the flow being checked is all that is kept of it.                    *)
(***************************************************************************)
EXTENDS Integers, SequencesExt

CONSTANTS
  Cells,         \* memory for rules; bounds their number
  None,          \* NULL
  Contents,      \* [name, filter, action] a user may write; full_cone is set apart
  MaxChecked,    \* bound: length of the lists that flows are checked against
  Watched        \* a connection callback is registered

Actions == {"DIRECT", "PROXY", "CONE"}     \* CONE: PROXY with full_cone set

ASSUME RuleConstants ==
  /\ IsFiniteSet(Cells) /\ None \notin Cells
  /\ Contents \subseteq [name : {"hit", "miss", "star"}, filter : {"hit", "miss", "star"},
                         action : Actions \ {"CONE"}]
  /\ MaxChecked \in Nat /\ Watched \in BOOLEAN

VARIABLES
  cell,          \* PROCESS_RULE structures
  head,          \* rules_list
  hasActive,     \* g_has_active_rules
  editor,        \* the thread that edits: where it is, on which rule
  matcher,       \* the packet thread: one check of one flow
  order          \* history: the list the user sees, top to bottom

vars == <<cell, head, hasActive, editor, matcher, order>>

Free == [live |-> FALSE, enabled |-> FALSE, name |-> "miss", filter |-> "freed",
         action |-> "DIRECT", next |-> None]
NoEdit == [pc |-> "idle", rule |-> None, pos |-> 0, new |-> None]
NoCheck == [pc |-> "idle", at |-> None, wild |-> None, verdict |-> "none",
            overlap |-> "quiet", allowed |-> {}]

Overlaps == {"quiet", "adds", "update", "moves", "frees"}

\* Every variable has its type: no field of a linked rule is left as malloc gave it.
TypeOK ==
  /\ cell \in [Cells -> [live : BOOLEAN, enabled : BOOLEAN, name : {"hit", "miss", "star"},
                         filter : {"hit", "miss", "star", "null", "freed"},
                         action : Actions, next : Cells \cup {None}]]
  /\ head \in Cells \cup {None}
  /\ hasActive \in BOOLEAN
  /\ editor \in [pc : {"idle", "clear", "scan", "free", "filter", "rest", "insert", "link"},
                 rule : Cells \cup {None}, pos : Nat, new : Contents \cup {None}]
  /\ matcher \in [pc : {"idle", "begin", "visit", "take", "next", "done"},
                  at : Cells \cup {None}, wild : Cells \cup {None},
                  verdict : Actions \cup {"none", "unruled", "freed", "null"},
                  overlap : Overlaps, allowed : SUBSET Actions]
  /\ order \in Seq(Cells)

Init ==
  /\ cell = [c \in Cells |-> Free]
  /\ head = None /\ hasActive = FALSE
  /\ editor = NoEdit /\ matcher = NoCheck
  /\ order = <<>>

-----------------------------------------------------------------------------
(* The list as the pointers give it *)

\* Node[i] is the i-th rule of the list, None past its end.
Node ==
  LET n[i \in 1 .. Cardinality(Cells) + 1] ==
        IF i = 1 THEN head ELSE IF n[i - 1] = None THEN None ELSE cell[n[i - 1]].next
  IN  n
Listed == {Node[i] : i \in DOMAIN Node} \ {None}
Length == Cardinality({i \in DOMAIN Node : Node[i] # None})

\* The pointer to a listed rule is stored in its predecessor, or in rules_list.
Relink(c, to) ==
  IF head = c
  THEN head' = to /\ cell' = cell
  ELSE head' = head /\ cell' = [d \in Cells |-> IF d \in Listed /\ cell[d].next = c
                                               THEN [cell[d] EXCEPT !.next = to] ELSE cell[d]]

-----------------------------------------------------------------------------
(* What a list says of the flow *)

\* A filter that is NULL matches everything: parse_token_list returns TRUE.
Specific(r) ==
  \/ r.name = "hit" /\ r.filter \in {"hit", "star", "null"}
  \/ r.name = "star" /\ r.filter = "hit"
Wildcard(r) == r.name = "star" /\ r.filter = "star"

\* The first enabled rule that matches specifically; failing that, the first
\* enabled rule without any filter; failing that, none, which means DIRECT.
Best(o, mem) ==
  LET specific == {i \in 1 .. Len(o) : mem[o[i]].enabled /\ Specific(mem[o[i]])}
      wildcard == {i \in 1 .. Len(o) : mem[o[i]].enabled /\ Wildcard(mem[o[i]])}
  IN  IF specific # {} THEN Min(specific) ELSE IF wildcard # {} THEN Min(wildcard) ELSE 0

VerdictOf(o, mem) ==
  LET best == Best(o, mem) IN IF best = 0 THEN "DIRECT" ELSE mem[o[best]].action

\* The check in progress takes note of an edit.  Overlap is what has happened:
\* rules appended, one field of one rule written, several of these or rules
\* moved, memory freed.  Up to "update" the verdicts of all lists it may see are kept.
Worse(seen, kind) ==
  IF "frees" \in {seen, kind} THEN "frees"
  ELSE IF seen = "quiet" \/ {seen, kind} = {"adds"} THEN kind ELSE "moves"

Overlapped(kind) ==
  matcher' =
    IF matcher.pc \in {"idle", "done"} THEN matcher
    ELSE LET now == Worse(matcher.overlap, kind)
         IN  [matcher EXCEPT
               !.overlap = now,
               !.allowed = IF now \in {"adds", "update"} THEN @ \cup {VerdictOf(order', cell')} ELSE {}]

-----------------------------------------------------------------------------
(* ProxyBridge_AddRule, EnableRule, DisableRule, SetRuleFullCone *)

\* The rule is complete when the last store links it behind the tail.
AddRule ==
  /\ editor.pc = "idle"
  /\ matcher.pc = "idle" \/ Len(order) < MaxChecked
  /\ \E c \in Cells, x \in Contents :
       LET rule == [live |-> TRUE, enabled |-> TRUE, name |-> x.name, filter |-> x.filter,
                    action |-> x.action, next |-> None]
       IN  /\ ~cell[c].live
           /\ IF head = None
              THEN head' = c /\ cell' = [cell EXCEPT ![c] = rule]
              ELSE /\ head' = head
                   /\ cell' = [cell EXCEPT ![c] = rule, ![Node[Length]].next = c]
           /\ order' = Append(order, c)
  /\ editor' = [NoEdit EXCEPT !.pc = "clear"]
  /\ Overlapped("adds")
  /\ UNCHANGED hasActive

EnableRule ==
  /\ editor.pc = "idle"
  /\ \E c \in Listed : cell' = [cell EXCEPT ![c].enabled = TRUE]
  /\ editor' = [NoEdit EXCEPT !.pc = "clear"]
  /\ UNCHANGED <<head, hasActive, order>>
  /\ Overlapped("update")

\* Mutant: the flag is not brought up to date.
DisableRule_KeepsFlag ==
  /\ editor.pc = "idle"
  /\ \E c \in Listed : cell' = [cell EXCEPT ![c].enabled = FALSE]
  /\ UNCHANGED <<head, hasActive, order, editor>>
  /\ Overlapped("update")

DisableRule ==
  /\ editor.pc = "idle"
  /\ \E c \in Listed : cell' = [cell EXCEPT ![c].enabled = FALSE]
  /\ editor' = [NoEdit EXCEPT !.pc = "clear"]
  /\ UNCHANGED <<head, hasActive, order>>
  /\ Overlapped("update")

\* full_cone matters for PROXY rules only; the flag is not touched.
SetRuleFullCone ==
  /\ editor.pc = "idle"
  /\ \E c \in Listed, a \in {"PROXY", "CONE"} :
       /\ cell[c].action \in {"PROXY", "CONE"}
       /\ cell' = [cell EXCEPT ![c].action = a]
  /\ UNCHANGED <<head, hasActive, order, editor>>
  /\ Overlapped("update")

-----------------------------------------------------------------------------
(* update_has_active_rules, the end of every edit but moves *)

FlagClear ==
  /\ editor.pc = "clear"
  /\ hasActive' = FALSE
  /\ editor' = [editor EXCEPT !.pc = "scan"]
  /\ UNCHANGED <<cell, head, order, matcher>>

FlagScan ==
  /\ editor.pc = "scan"
  /\ hasActive' = \E c \in Listed : cell[c].enabled
  /\ editor' = NoEdit
  /\ UNCHANGED <<cell, head, order, matcher>>

-----------------------------------------------------------------------------
(* ProxyBridge_DeleteRule *)

Without(c) == RemoveFirst(order, c)

\* Mutant: the first rule of the list is freed but stays linked.
DeleteRule_HeadStays ==
  /\ editor.pc = "idle"
  /\ \E c \in Listed :
       /\ IF c = head THEN UNCHANGED <<head, cell>> ELSE Relink(c, cell[c].next)
       /\ order' = Without(c)
       /\ editor' = [NoEdit EXCEPT !.pc = "free", !.rule = c]
  /\ UNCHANGED hasActive
  /\ Overlapped("frees")

DeleteRule ==
  /\ editor.pc = "idle"
  /\ \E c \in Listed :
       /\ Relink(c, cell[c].next)
       /\ order' = Without(c)
       /\ editor' = [NoEdit EXCEPT !.pc = "free", !.rule = c]
  /\ UNCHANGED hasActive
  /\ Overlapped("frees")

FreeRule ==
  /\ editor.pc = "free"
  /\ cell' = [cell EXCEPT ![editor.rule] = Free]
  /\ editor' = [NoEdit EXCEPT !.pc = "clear"]
  /\ UNCHANGED <<head, hasActive, order, matcher>>

-----------------------------------------------------------------------------
(* ProxyBridge_EditRule *)

\* The new name is copied and the old filter freed, but still pointed to.
EditRule ==
  /\ editor.pc = "idle"
  /\ \E c \in Listed, x \in Contents :
       /\ cell' = [cell EXCEPT ![c].name = x.name, ![c].filter = "freed"]
       /\ editor' = [NoEdit EXCEPT !.pc = "filter", !.rule = c, !.new = x]
  /\ UNCHANGED <<head, hasActive, order>>
  /\ Overlapped("frees")

EditFilter ==
  /\ editor.pc = "filter"
  /\ cell' = [cell EXCEPT ![editor.rule].filter = editor.new.filter]
  /\ editor' = [editor EXCEPT !.pc = "rest"]
  /\ UNCHANGED <<head, hasActive, order, matcher>>

\* No memory for the copy: the rule is left with the new name, no filter and
\* the old action.  Bound: at most one rule is in that state at a time.
EditFails ==
  /\ editor.pc = "filter" /\ \A c \in Cells : cell[c].filter # "null"
  /\ cell' = [cell EXCEPT ![editor.rule].filter = "null"]
  /\ editor' = NoEdit
  /\ UNCHANGED <<head, hasActive, order, matcher>>

\* full_cone stays as it is, though it does not show in a rule that is not PROXY.
Edited(old, new) ==
  IF new # "PROXY" THEN {new} ELSE IF old = "DIRECT" THEN {"PROXY", "CONE"} ELSE {old}

EditRest ==
  /\ editor.pc = "rest"
  /\ \E a \in Edited(cell[editor.rule].action, editor.new.action) :
       cell' = [cell EXCEPT ![editor.rule].action = a]
  /\ editor' = [NoEdit EXCEPT !.pc = "clear"]
  /\ UNCHANGED <<head, hasActive, order, matcher>>

-----------------------------------------------------------------------------
(* ProxyBridge_MoveRuleToPosition *)

\* The rule is unlinked first; it keeps its next.  A position past the end is
\* accepted, except for a sole rule, for which the code has no tail to append
\* to and dereferences NULL (the program ends there).
MoveRule ==
  /\ editor.pc = "idle"
  /\ \E c \in Listed, pos \in 1 .. Length + 1 :
       /\ Length = 1 => pos = 1
       /\ Relink(c, cell[c].next)
       /\ order' = LET rest == Without(c)
                       k == IF pos > Len(rest) THEN Len(rest) + 1 ELSE pos
                   IN  InsertAt(rest, k, c)
       /\ editor' = [NoEdit EXCEPT !.pc = "insert", !.rule = c, !.pos = pos]
  /\ UNCHANGED hasActive
  /\ Overlapped("moves")

\* The rule that stands before the position; the last one if it is past the end.
Appends == editor.pos > Length + 1
Before == IF Appends THEN Node[Length] ELSE Node[editor.pos - 1]

\* First store: the rule points to its successor, or, appended, is pointed to.
MoveInsert ==
  /\ editor.pc = "insert"
  /\ \/ /\ editor.pos = 1
        /\ cell' = [cell EXCEPT ![editor.rule].next = head]
     \/ /\ editor.pos > 1 /\ ~Appends
        /\ cell' = [cell EXCEPT ![editor.rule].next = cell[Before].next]
     \/ /\ editor.pos > 1 /\ Appends
        /\ cell' = [cell EXCEPT ![Before].next = editor.rule]
  /\ editor' = [editor EXCEPT !.pc = "link", !.new = None,
                              !.pos = IF editor.pos > 1 /\ Appends THEN 0 ELSE @]
  /\ UNCHANGED <<head, hasActive, order, matcher>>

\* Mutant: the rule is inserted after the one at its position.
MoveLink_OffByOne ==
  /\ editor.pc = "link"
  /\ CASE editor.pos = 0 -> head' = head /\ cell' = [cell EXCEPT ![editor.rule].next = None]
       [] editor.pos = 1 -> head' = editor.rule /\ cell' = cell
       [] OTHER -> /\ head' = head
                   /\ cell' = [cell EXCEPT ![Node[editor.pos]].next = editor.rule]
  /\ editor' = NoEdit
  /\ UNCHANGED <<hasActive, order, matcher>>

\* Mutant: the appended rule keeps its old successor, which closes a circle.
MoveLink_KeepsNext ==
  /\ editor.pc = "link"
  /\ CASE editor.pos = 0 -> UNCHANGED <<head, cell>>
       [] editor.pos = 1 -> head' = editor.rule /\ cell' = cell
       [] OTHER -> head' = head /\ cell' = [cell EXCEPT ![Before].next = editor.rule]
  /\ editor' = NoEdit
  /\ UNCHANGED <<hasActive, order, matcher>>

\* Second store: the rule is linked, or, appended (pos 0), becomes the last.
MoveLink ==
  /\ editor.pc = "link"
  /\ CASE editor.pos = 0 -> head' = head /\ cell' = [cell EXCEPT ![editor.rule].next = None]
       [] editor.pos = 1 -> head' = editor.rule /\ cell' = cell
       [] OTHER -> head' = head /\ cell' = [cell EXCEPT ![Before].next = editor.rule]
  /\ editor' = NoEdit
  /\ UNCHANGED <<hasActive, order, matcher>>

-----------------------------------------------------------------------------
(* packet_processor: the test of the flag, then match_rule *)

\* An edit that still has to touch a listed rule overlaps the check from its start.
Check ==
  /\ matcher.pc = "idle" /\ Len(order) <= MaxChecked
  /\ LET now == CASE editor.pc \in {"insert", "link"} -> "moves"
                  [] editor.pc \in {"filter", "rest"} -> "frees"
                  [] OTHER -> "quiet"
         skip == ~hasActive /\ ~Watched
     IN  matcher' = [NoCheck EXCEPT
           !.pc = IF skip THEN "done" ELSE "begin",
           !.verdict = IF skip THEN "unruled" ELSE "none",
           !.overlap = now,
           !.allowed = IF now = "quiet" THEN {VerdictOf(order, cell)} ELSE {}]
  /\ UNCHANGED <<cell, head, hasActive, editor, order>>

Done(v) == [matcher EXCEPT !.pc = "done", !.verdict = v, !.at = None, !.wild = None,
                           !.allowed = @ \cap {v}]
GoTo(c) == IF c # None THEN [matcher EXCEPT !.pc = "visit", !.at = c]
           ELSE IF matcher.wild # None THEN [matcher EXCEPT !.pc = "take", !.at = matcher.wild]
           ELSE Done("DIRECT")

Begin ==
  /\ matcher.pc = "begin"
  /\ matcher' = GoTo(head)
  /\ UNCHANGED <<cell, head, hasActive, editor, order>>

\* Mutant: a later rule without filters replaces the one that was kept.
Visit_LastWildcard ==
  /\ matcher.pc = "visit"
  /\ LET r == cell[matcher.at]
     IN  matcher' =
           IF ~r.live \/ (r.enabled /\ r.filter = "freed") THEN Done("freed")
           ELSE IF r.enabled /\ r.name = "star" /\ r.filter = "null" THEN Done("null")
           ELSE IF r.enabled /\ Specific(r) THEN [matcher EXCEPT !.pc = "take"]
           ELSE [matcher EXCEPT !.pc = "next",
                   !.wild = IF r.enabled /\ Wildcard(r) THEN matcher.at ELSE @]
  /\ UNCHANGED <<cell, head, hasActive, editor, order>>

\* One rule is read.  Freed memory gives an unknown answer ("freed"); strcmp on
\* a filter that is NULL ends the program ("null").
Visit ==
  /\ matcher.pc = "visit"
  /\ LET r == cell[matcher.at]
     IN  matcher' =
           IF ~r.live \/ (r.enabled /\ r.filter = "freed") THEN Done("freed")
           ELSE IF r.enabled /\ r.name = "star" /\ r.filter = "null" THEN Done("null")
           ELSE IF r.enabled /\ Specific(r) THEN [matcher EXCEPT !.pc = "take"]
           ELSE [matcher EXCEPT !.pc = "next",
                   !.wild = IF r.enabled /\ Wildcard(r) /\ @ = None THEN matcher.at ELSE @]
  /\ UNCHANGED <<cell, head, hasActive, editor, order>>

Advance ==
  /\ matcher.pc = "next"
  /\ matcher' = IF cell[matcher.at].live THEN GoTo(cell[matcher.at].next) ELSE Done("freed")
  /\ UNCHANGED <<cell, head, hasActive, editor, order>>

\* The action is read from the rule that was chosen.
Take ==
  /\ matcher.pc = "take"
  /\ matcher' = IF cell[matcher.at].live THEN Done(cell[matcher.at].action) ELSE Done("freed")
  /\ UNCHANGED <<cell, head, hasActive, editor, order>>

\* The packet has been dealt with; the next one may come.
Finished ==
  /\ matcher.pc = "done"
  /\ matcher' = NoCheck
  /\ UNCHANGED <<cell, head, hasActive, editor, order>>

-----------------------------------------------------------------------------

EditorStep ==
  \/ FlagClear \/ FlagScan \/ FreeRule
  \/ EditFilter \/ EditFails \/ EditRest
  \/ MoveInsert \/ MoveLink

\* Bound: no edit begins between a verdict and Finished, which it cannot affect.
Edit ==
  /\ matcher.pc # "done"
  /\ \/ AddRule \/ EnableRule \/ DisableRule \/ SetRuleFullCone
     \/ DeleteRule \/ EditRule \/ MoveRule

MatcherStep == Begin \/ Visit \/ Advance \/ Take \/ Finished

Next == Edit \/ EditorStep \/ Check \/ MatcherStep

Spec == Init /\ [][Next]_vars

\* Both threads run; nobody has to edit rules or send packets.
FairSpec == Spec /\ WF_vars(EditorStep) /\ WF_vars(MatcherStep)

-----------------------------------------------------------------------------
(* Properties *)

\* Between edits the pointers form exactly the list the user sees: each rule
\* once, in its place, whatever was added, deleted and moved before, also to
\* the first place, the last and past the end.  Every variable keeps its type.
ListIsSequence ==
  /\ TypeOK
  /\ editor.pc = "idle" =>
       /\ Length = Len(order)
       /\ \A i \in 1 .. Length : Node[i] = order[i]
       /\ \A c \in Cells : cell[c].live <=> \E i \in 1 .. Len(order) : order[i] = c

\* The flag says whether some rule is enabled, between edits and in the middle
\* of all that do not touch it.  A packet skips rules that exist (the fast path
\* of packet_processor) only while update_has_active_rules is due or running.
FlagExact ==
  LET some == \E i \in 1 .. Len(order) : cell[order[i]].enabled
  IN  /\ editor.pc \notin {"clear", "scan"} /\ some => hasActive
      /\ editor.pc \notin {"free", "clear", "scan"} /\ hasActive => some

\* A check that only appended rules, or the write of one field of one rule, can
\* overlap gives the verdict of the list as it was at some moment of the check.
VerdictRight ==
  matcher.pc = "done" /\ matcher.verdict \in Actions /\ matcher.overlap \in {"quiet", "adds", "update"} =>
    matcher.verdict \in matcher.allowed

\* A check reads freed memory only if a rule was deleted or edited while it ran:
\* rules appended, moved or switched never make it, nor does a deletion whose
\* rule was unlinked before the check began.
FreedExplained ==
  matcher.verdict = "freed" => matcher.overlap = "frees"

\* Once the user stops editing, a walk ends: rules being moved around it never
\* leave it in a circle.
CheckEnds ==
  <>[](editor.pc = "idle") => (matcher.pc = "begin" ~> matcher.pc = "done")
=============================================================================
