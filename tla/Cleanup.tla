------------------------------- MODULE Cleanup -------------------------------
(***************************************************************************)
(* Removal of what a recovery run left: plan_runtime_cleanup and           *)
(* execute_runtime_cleanup of src/src/local_recovery.py, plan_vendor_-     *)
(* cleanup and execute_vendor_cleanup of src/src/squeez_recovery.py.       *)
(* A plan fixes every entry; the execution looks at all of them again      *)
(* before it deletes the first.  Other processes of the same user may      *)
(* change the tree at any moment, between two system calls too.            *)
(*                                                                         *)
(* An entry has an identity (device and inode) and a content; ClnDirectory *)
(* holds all the others in the runtime tree, the vendor tree is flat and   *)
(* its directory is held open, as the vendor files are while looked at.    *)
(***************************************************************************)
EXTENDS Integers, FiniteSets, FiniteSetsExt

CONSTANTS
    ClnFiles, ClnDirectory,  \* the entries a plan allows
    ClnChanges               \* bound: changes other processes make

VARIABLES
    clnKind,    \* "runtime" or "vendor"
    entry,      \* the tree: the entries of the plan
    extra,      \* whether there is an entry the plan does not allow
    clnPlan,    \* what the plan says of each entry
    looked,     \* entries that were looked at again
    stated,     \* the file whose identity was compared last, its next step to come
    opened,     \* the directory that was opened to delete that file from
    gone,       \* entries deleted, as they were
    clnAt,      \* "idle", "planned", "looking", "deleting", "removed", "refused"
    early,      \* history: something changed between plan and execution
    masked,     \* history: a file changed between the two reads of its look
    changed,    \* history: entries that changed since their identity was compared
    clnChanges

clnHistory == <<early, masked, changed, clnChanges>>
clnVars == <<clnKind, entry, extra, clnPlan, looked, stated, opened, gone, clnAt, clnHistory>>

Absent == [id |-> 0, content |-> 0]
ClnEntries == IF clnKind = "vendor" THEN ClnFiles ELSE ClnFiles \cup {ClnDirectory}

ClnInit ==
    /\ clnKind \in {"runtime", "vendor"}
    /\ entry = [e \in ClnEntries |-> [id |-> 1, content |-> 1]]
    /\ extra = FALSE
    /\ clnPlan = [e \in ClnEntries |-> Absent]
    /\ looked = {} /\ stated = {} /\ opened = 0 /\ gone = [e \in ClnEntries |-> Absent]
    /\ clnAt = "idle" /\ early = FALSE /\ masked = FALSE /\ changed = {} /\ clnChanges = 0

\* The names in the tree are the names the plan allows.
TreeAsAllowed == ~extra /\ \A e \in ClnEntries : entry[e] # Absent

\* Another process rewrites, replaces or removes a file, or adds a name.
FileDisturbed ==
    /\ \E f \in ClnFiles :
          \/ entry[f] # Absent /\ entry' = [entry EXCEPT ![f] = [@ EXCEPT !.content = 2]]
          \/ /\ clnKind = "runtime" => entry[ClnDirectory] # Absent
             /\ entry' = [entry EXCEPT ![f] = [id |-> 2 + clnChanges, content |-> 1]]
          \/ entry' = [entry EXCEPT ![f] = Absent]
    /\ UNCHANGED extra
\* It replaces the runtime directory, with what was in it or by an empty one,
\* or removes it.
DirectoryReplaced ==
    /\ clnKind = "runtime" /\ entry[ClnDirectory] # Absent
    /\ \E new \in {Absent, [id |-> 2 + clnChanges, content |-> 1]}, left \in {{}, ClnFiles} :
          /\ left = {} => ~extra
          /\ new = Absent => left = {}
          /\ entry' = [e \in ClnEntries |-> IF e = ClnDirectory THEN new ELSE IF e \in left THEN entry[e] ELSE Absent]
    /\ UNCHANGED extra
NameAdded ==
    /\ clnKind = "runtime" => entry[ClnDirectory] # Absent
    /\ extra' = TRUE /\ UNCHANGED entry

ClnDisturb ==
    /\ clnChanges < ClnChanges /\ clnAt \notin {"removed", "refused"}
    /\ FileDisturbed \/ DirectoryReplaced \/ NameAdded
    /\ early' = (early \/ (clnAt = "planned" /\ (entry' # entry \/ extra' # extra)))
    /\ changed' = changed \cup {e \in ClnEntries : gone[e] = Absent /\ entry'[e] # entry[e]}
    /\ masked' = (masked \/ (clnAt = "looking" /\ \E e \in stated : entry'[e] # entry[e]))
    /\ clnChanges' = clnChanges + 1
    /\ UNCHANGED <<clnKind, clnPlan, looked, stated, opened, gone, clnAt>>

ClnMakePlan ==
    /\ clnAt = "idle"
    /\ IF TreeAsAllowed THEN clnAt' = "planned" /\ clnPlan' = entry ELSE clnAt' = "refused" /\ UNCHANGED clnPlan
    /\ UNCHANGED <<clnKind, entry, extra, looked, stated, opened, gone, clnHistory>>

\* The names first.
ClnExecute ==
    /\ clnAt = "planned"
    /\ clnAt' = IF TreeAsAllowed THEN "looking" ELSE "refused"
    /\ UNCHANGED <<clnKind, entry, extra, clnPlan, looked, stated, opened, gone, clnHistory>>

SameIdentitySlipPresent(e) == entry[e] # Absent

SameIdentity(e) == entry[e].id = clnPlan[e].id
SameContent(e) == entry[e] # Absent /\ entry[e].content = clnPlan[e].content

\* A file of the runtime tree takes a system call for its identity and another
\* for what is done about it.
InTwoSteps(e) == clnKind = "runtime" /\ e # ClnDirectory

LookedAt(e) ==
    /\ looked' = looked \cup {e}
    /\ clnAt' = IF looked' = ClnEntries THEN "deleting" ELSE clnAt

\* Then each entry's identity and fingerprint.  The vendor cleanup reads both
\* through the file it holds open, a directory has an identity only.
ClnLook(e) ==
    /\ clnAt = "looking" /\ e \notin looked /\ stated = {} /\ ~InTwoSteps(e)
    /\ IF SameIdentity(e) /\ SameContent(e)
       THEN LookedAt(e) /\ changed' = changed \ {e}
       ELSE clnAt' = "refused" /\ UNCHANGED <<looked, changed>>
    /\ UNCHANGED <<clnKind, entry, extra, clnPlan, stated, opened, gone, early, masked, clnChanges>>

\* The runtime cleanup compares what the name has (lstat), when it looks and
\* again before it deletes; then the directory the file is in stays open.
ClnCompare(e) ==
    /\ InTwoSteps(e) /\ stated = {}
    /\ \/ clnAt = "looking" /\ e \notin looked /\ UNCHANGED opened
       \/ clnAt = "deleting" /\ gone[e] = Absent /\ opened' = entry[ClnDirectory].id
    /\ IF SameIdentity(e)
       THEN stated' = {e} /\ changed' = changed \ {e} /\ UNCHANGED clnAt
       ELSE clnAt' = "refused" /\ UNCHANGED <<stated, changed>>
    /\ UNCHANGED <<clnKind, entry, extra, clnPlan, looked, gone, early, masked, clnChanges>>

\* fingerprint_file opens whatever has the name by then.
ClnRead(e) ==
    /\ clnAt = "looking" /\ e \in stated /\ stated' = {}
    /\ IF SameContent(e) THEN LookedAt(e) ELSE clnAt' = "refused" /\ UNCHANGED looked
    /\ UNCHANGED <<clnKind, entry, extra, clnPlan, opened, gone, clnHistory>>

Unlinked(e) ==
    /\ gone' = [gone EXCEPT ![e] = entry[e]]
    /\ entry' = [entry EXCEPT ![e] = Absent]
    /\ UNCHANGED clnAt
\* From a directory that is no longer in the tree, if the file was left there.
UnlinkedElsewhere(e) ==
    /\ InTwoSteps(e) /\ opened # entry[ClnDirectory].id
    /\ gone' = [gone EXCEPT ![e] = clnPlan[e]]
    /\ UNCHANGED <<entry, clnAt>>
DeletionFails == clnAt' = "refused" /\ UNCHANGED <<entry, gone>>

\* The deepest entries first, each by its name and whatever has it by then: a
\* vendor file and the runtime directory without another look, and a directory
\* only if it is empty.
ClnDelete(e) ==
    /\ clnAt = "deleting" /\ gone[e] = Absent
    /\ stated = IF InTwoSteps(e) THEN {e} ELSE {}
    /\ e = ClnDirectory => \A f \in ClnFiles : gone[f] # Absent
    /\ LET inTree == InTwoSteps(e) => opened = entry[ClnDirectory].id
           empty == e = ClnDirectory => ~extra /\ \A f \in ClnFiles : entry[f] = Absent
       IN  \/ inTree /\ empty /\ entry[e] # Absent /\ Unlinked(e)
           \/ inTree /\ (~empty \/ entry[e] = Absent) /\ DeletionFails
           \/ ~inTree /\ (UnlinkedElsewhere(e) \/ DeletionFails)
    /\ stated' = {}
    /\ UNCHANGED <<clnKind, extra, clnPlan, looked, opened, clnHistory>>

ClnFinish ==
    /\ clnAt = "deleting" /\ \A e \in ClnEntries : gone[e] # Absent
    /\ clnAt' = IF extra \/ \E e \in ClnEntries : entry[e] # Absent THEN "refused" ELSE "removed"
    /\ UNCHANGED <<clnKind, entry, extra, clnPlan, looked, stated, opened, gone, clnHistory>>

ClnNext ==
    \/ ClnDisturb \/ ClnMakePlan \/ ClnExecute \/ ClnFinish
    \/ \E e \in ClnEntries : ClnLook(e) \/ ClnCompare(e) \/ ClnRead(e) \/ ClnDelete(e)

ClnSpec == ClnInit /\ [][ClnNext]_clnVars

-----------------------------------------------------------------------------
(* Properties                                                              *)

\* A tree that changed after it was planned is left alone whole, not up to the
\* entry that changed, unless a file is changed once more while it is looked at
\* (between lstat and fingerprint_file); what is deleted has the identity it was
\* planned with, or another process replaced it after the last comparison: of a
\* runtime file just before its unlink, of a vendor file and of the runtime
\* directory in the look before the first deletion; and a cleanup that says it
\* removed the tree left nothing behind.
ClnAllOrNothing ==
    /\ early /\ ~masked => \A e \in ClnEntries : gone[e] = Absent
    /\ \A e \in ClnEntries : gone[e] # Absent => gone[e].id = clnPlan[e].id \/ e \in changed
    /\ clnAt = "removed" => ~extra /\ \A e \in ClnEntries : entry[e] = Absent
=============================================================================
