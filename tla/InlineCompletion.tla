-------------------------- MODULE InlineCompletion --------------------------
(***************************************************************************)
(* The inline completion provider of one document                          *)
(* (src/completion/inlineCompletionProvider.ts) with the imports it looks  *)
(* up beforehand (src/completion/autoImportResolver.ts), while the user    *)
(* edits, the editor asks and cancels, and the extension is switched off   *)
(* and on.                                                                 *)
(*                                                                         *)
(* The request manager answers as RequestManager shows it does: at any     *)
(* time, with nothing or with something that fits the request.  A request  *)
(* is the version of the document and the position it was built for.       *)
(***************************************************************************)
EXTENDS Naturals, FiniteSets, SequencesExt

CONSTANTS
    Calls,          \* calls of provideInlineCompletionItems, each runs once
    Positions,      \* where the cursor may be
    MaxPlans,       \* sets of plans kept
    MaxVersion,     \* bound: edits
    None

PlansAssumption == MaxPlans \in Nat \ {0}
VersionAssumption == MaxVersion \in Nat /\ None \notin 0..MaxVersion

VARIABLES
    version,    \* of the document
    enabled,    \* the lifecycle's state
    call,       \* calls: step, position, cancellation, version they were built for
    lookup,     \* of each call: the version its pending look-up of imports began at
    plans,      \* the sets of import plans kept, oldest first
    items       \* history: the items handed to the editor

vars == <<version, enabled, call, lookup, plans, items>>

Init ==
    /\ version = 0 /\ enabled = TRUE
    /\ call = [k \in Calls |-> [at |-> "new", position |-> None, cancelled |-> FALSE, version |-> None]]
    /\ lookup = [k \in Calls |-> None]
    /\ plans = <<>> /\ items = {}

-----------------------------------------------------------------------------
(* provideInlineCompletionItems *)

Finish(k) == call' = [call EXCEPT ![k].at = "over"]

Provide(k, p) ==
    /\ call[k].at = "new"
    /\ call' = [call EXCEPT ![k].position = p, ![k].at = IF enabled THEN "permission" ELSE "over"]
    /\ UNCHANGED <<version, enabled, lookup, plans, items>>

\* canComplete: the account may be missing.  The snapshot and the request are taken after
\* it, at the position before it; nobody waits for the look-up.
Permitted(k) ==
    /\ call[k].at = "permission"
    /\ \/ Finish(k) /\ UNCHANGED lookup
       \/ /\ call' = [call EXCEPT ![k].at = "waiting", ![k].version = version]
          /\ lookup' = [lookup EXCEPT ![k] = version]
    /\ UNCHANGED <<version, enabled, plans, items>>

\* mutant: plans are found by position alone
Key_Position(v, p) == p

Key(v, p) == <<v, p>>

\* isCurrentEditorState
IsCurrent(k) == call[k].version = version

\* The plan attached to a suggestion, if its first word is an import known by now.
Prefetched(k) ==
    {plans[i].version : i \in {j \in DOMAIN plans : plans[j].key = Key(version, call[k].position)}}

\* The request manager's answer is handed on, unless it is late.
Answer(k) ==
    /\ call[k].at = "waiting"
    /\ Finish(k)
    /\ \/ UNCHANGED items       \* nothing, or an error
       \/ /\ ~call[k].cancelled /\ IsCurrent(k) /\ enabled
          /\ \E plan \in Prefetched(k) \cup {None} :
               items' = items \cup {[version |-> version, request |-> call[k].version, plan |-> plan]}
    /\ UNCHANGED <<version, enabled, lookup, plans>>

-----------------------------------------------------------------------------
(* AutoImportResolver.prefetch *)

\* Map.delete: a key has at most one set of plans.
Without(key) ==
    LET found == {i \in DOMAIN plans : plans[i].key = key}
    IN  IF found = {} THEN plans ELSE RemoveAt(plans, CHOOSE i \in found : TRUE)

\* The set of plans of a key is replaced and becomes the newest; the oldest one goes.
Kept(entry) ==
    LET all == Append(Without(entry.key), entry)
    IN  IF Len(all) > MaxPlans THEN Tail(all) ELSE all

\* The language server's list is dropped if the document has changed since.
Prefetch(k) ==
    /\ lookup[k] # None
    /\ \/ UNCHANGED plans       \* an error
       \/ lookup[k] # version /\ UNCHANGED plans
       \/ /\ lookup[k] = version
          /\ plans' = Kept([key |-> Key(lookup[k], call[k].position), version |-> version])
    /\ lookup' = [lookup EXCEPT ![k] = None]
    /\ UNCHANGED <<version, enabled, call, items>>

-----------------------------------------------------------------------------
(* The editor *)

Edit ==
    /\ version < MaxVersion
    /\ version' = version + 1
    /\ UNCHANGED <<enabled, call, lookup, plans, items>>

Cancel(k) ==
    /\ call[k].at \in {"permission", "waiting"} /\ ~call[k].cancelled
    /\ call' = [call EXCEPT ![k].cancelled = TRUE]
    /\ UNCHANGED <<version, enabled, lookup, plans, items>>

\* The setting, by command or by hand (DeinsCompleteLifecycle.refresh).
Switch ==
    /\ enabled' = ~enabled
    /\ UNCHANGED <<version, call, lookup, plans, items>>

Next ==
    \/ \E k \in Calls :
         \/ Permitted(k) \/ Answer(k) \/ Prefetch(k) \/ Cancel(k)
         \/ \E p \in Positions : Provide(k, p)
    \/ Edit \/ Switch

Spec == Init /\ [][Next]_vars

-----------------------------------------------------------------------------
(* Properties *)

\* Whatever is typed while permission, imports and answers are awaited: an item is handed
\* out for the text its request was built from, and the import that comes with it was
\* computed for that same text, or its edits would go to the wrong place.
ItemsFitTheText ==
    \A i \in items : i.request = i.version /\ i.plan \in {None, i.version}
=============================================================================
