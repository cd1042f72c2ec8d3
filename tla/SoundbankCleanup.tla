--------------------------- MODULE SoundbankCleanup ---------------------------
(***************************************************************************)
(* Audio files of the soundbank that nobody wants any more are deleted     *)
(* (core/soundbank_cleanup.py), in the standalone server's Settings        *)
(* (core/utils/config_editor.py, core/api/settings_handler.py).            *)
(*                                                                         *)
(* A file may be named by the saved configuration, by the one that runs    *)
(* until the next restart, and by entries that somebody has made in        *)
(* Settings and not saved yet. All operations hold one lock; what can come *)
(* between their steps is the end of the process and a file that is copied *)
(* into the directory by hand. A file under the same name is a different   *)
(* file: the number stands for size, time and inode.                       *)
(***************************************************************************)
EXTENDS Integers

CONSTANTS Names,   \* file names
          Pages,   \* open Settings pages, each with its draft ID
          MaxMade, \* bound: files made
          MaxRuns  \* bound: restarts, failing saves and deletions

VARIABLES
    disk,    \* the file under each name; 0 is none
    saved,   \* what the saved configuration says of each name
    runtime, \* the same of the configuration that runs
    page,    \* names that a page has in unsaved entries
    drafts,  \* names protected for each page, in memory
    owned,   \* those among them that Settings has made for the page
    journal, \* files to delete
    op,      \* the operation that holds the lock
    preview, \* what each page was shown as unused, if it was
    made,    \* files so far
    runs,
    byHand   \* history: files that were copied by hand

vars == <<disk, saved, runtime, page, drafts, owned, journal, op, preview, made, runs, byHand>>

Uses == {"none", "kept", "managed"} \* managed: generated, or compiled from another
NotShown == [name |-> "none", id |-> 0]
Records == [name : Names, id : 1 .. MaxMade]
Idle == [at |-> "idle", page |-> "none", new |-> <<>>, gone |-> {}, left |-> {}, stay |-> {},
         protected |-> {}]

\* Files, records and operations are what the code can hold.
TypeOK ==
    /\ disk \in [Names -> 0 .. made] /\ byHand \subseteq 1 .. made
    /\ saved \in [Names -> Uses] /\ runtime \in [Names -> Uses]
    /\ \A p \in Pages :
         /\ page[p] \subseteq Names /\ drafts[p] \subseteq Names /\ owned[p] \subseteq drafts[p]
         /\ preview[p] = {NotShown} \/ preview[p] \subseteq Records
    /\ journal \subseteq Records /\ op.left \cup op.stay \subseteq Records
    /\ \A r, s \in journal : r.name = s.name => r = s
    /\ made \in 0 .. MaxMade /\ runs \in 0 .. MaxRuns

Init ==
    /\ disk = [n \in Names |-> 0] /\ made = 0 /\ byHand = {}
    /\ saved = [n \in Names |-> "none"] /\ runtime = saved
    /\ page = [p \in Pages |-> {}] /\ drafts = page /\ owned = page
    /\ journal = {} /\ op = Idle /\ preview = [p \in Pages |-> {NotShown}]
    /\ runs = 0

Named(config) == {n \in Names : config[n] # "none"}
Managed(config) == {n \in Names : config[n] = "managed"}
Record(n) == [name |-> n, id |-> disk[n]]
Recorded(names) == {Record(n) : n \in {m \in names : disk[m] # 0}}
Free == op = Idle
Fault == runs < MaxRuns /\ runs' = runs + 1
Makes(n) == made < MaxMade /\ made' = made + 1 /\ disk' = [disk EXCEPT ![n] = made']

-----------------------------------------------------------------------------
(* generate() and optimize(): the file is there before it is registered as *)
(* a draft. The file that another is compiled from is protected with it,   *)
(* but not the page's own.                                                 *)
Generates(p, n) ==
    /\ Free /\ disk[n] \notin byHand /\ Makes(n)
    /\ op' = [Idle EXCEPT !.at = "made", !.page = p, !.gone = {n}, !.protected = {n}]
    /\ UNCHANGED <<saved, runtime, page, drafts, owned, journal, preview, runs, byHand>>
Optimizes(p, n, m) ==
    /\ Free /\ n # m /\ disk[n] # 0 /\ disk[m] \notin byHand /\ Makes(m)
    /\ op' = [Idle EXCEPT !.at = "made", !.page = p, !.gone = {m}, !.protected = {n, m}]
    /\ UNCHANGED <<saved, runtime, page, drafts, owned, journal, preview, runs, byHand>>
ProtectDraft ==
    /\ op.at = "made" /\ op' = Idle
    /\ page' = [page EXCEPT ![op.page] = @ \cup op.gone]
    /\ drafts' = [drafts EXCEPT ![op.page] = @ \cup op.protected]
    /\ owned' = [owned EXCEPT ![op.page] = @ \cup op.gone]
    /\ UNCHANGED <<disk, saved, runtime, journal, preview, made, runs, byHand>>

(* A file is copied into the directory, under a name that no entry of      *)
(* Settings has made.                                                      *)
Copies(n) ==
    /\ Makes(n) /\ byHand' = byHand \cup {made'}
    /\ saved[n] # "managed" /\ runtime[n] # "managed" /\ n \notin op.gone
    /\ \A p \in Pages : n \notin owned[p] \cup page[p]
    /\ op.at = "prepared" => op.new[n] # "managed"
    /\ UNCHANGED <<saved, runtime, page, drafts, owned, journal, op, preview, runs>>

-----------------------------------------------------------------------------
(* ConfigEditor.update(): prepare_save(), the configuration, after_save(). *)
(* The page keeps or drops what is saved, and saves or discards its drafts.*)
Candidates(p) ==
    {new \in [Names -> Uses] : \A n \in Names :
        \/ new[n] \in {"none", saved[n]}
        \/ new[n] = "managed" /\ n \in page[p]
        \/ new[n] = "kept" /\ disk[n] \in byHand}

Retired(p, new, gone) ==
    (Managed(saved) \cup (gone \cap owned[p])) \ Named(new)
Known == {r.name : r \in journal}
PrepareSave(p, new, gone) ==
    /\ Free /\ new \in Candidates(p) /\ gone \subseteq page[p] \ Named(new)
    /\ journal' = journal \cup Recorded(Retired(p, new, gone) \ Known)
    /\ op' = [Idle EXCEPT !.at = "prepared", !.page = p, !.new = new, !.gone = gone]
    /\ UNCHANGED <<disk, saved, runtime, page, drafts, owned, preview, made, runs, byHand>>

(* The journal cannot be written: the save goes on, and nothing is         *)
(* cleaned up behind it.                                                   *)
PrepareFails(p, new) ==
    /\ Free /\ new \in Candidates(p) /\ new # saved /\ Fault
    /\ saved' = new /\ page' = [page EXCEPT ![p] = @ \ Named(new)]
    /\ UNCHANGED <<disk, runtime, drafts, owned, journal, op, preview, made, byHand>>

(* _protected().                                                           *)
Protected(config, kept) ==
    Named(config) \cup Named(runtime) \cup UNION {kept[p] : p \in Pages}

Cleans(config, kept) ==
    op' = [Idle EXCEPT !.at = "clean", !.left = journal, !.protected = Protected(config, kept)]

Saves ==
    /\ op.at = "prepared"
    /\ LET released == Named(op.new) \cup op.gone
           kept == [drafts EXCEPT ![op.page] = @ \ released]
       IN  /\ saved' = op.new /\ drafts' = kept
           /\ owned' = [owned EXCEPT ![op.page] = @ \ released]
           /\ page' = [page EXCEPT ![op.page] = @ \ released]
           /\ Cleans(op.new, kept)
    /\ UNCHANGED <<disk, runtime, journal, preview, made, runs, byHand>>
SaveFails ==
    /\ op.at = "prepared" /\ Fault /\ op' = Idle
    /\ UNCHANGED <<disk, saved, runtime, page, drafts, owned, journal, preview, made, byHand>>

-----------------------------------------------------------------------------
(* cleanup_pending(), one record after another, and the deletion of unused *)
(* files. What is protected now waits; a file that has changed is another. *)
(* Variant: a name is enough.                                              *)
ByName(r) == disk[r.name] # 0
Same(r) == disk[r.name] = r.id
Unlinks(r) == disk' = [disk EXCEPT ![r.name] = 0]
Handled(r, stay) == op' = [op EXCEPT !.left = @ \ {r}, !.stay = @ \cup stay]

Cleanup(r) ==
    /\ op.at \in {"clean", "sweep"} /\ r \in op.left
    /\ \/ r.name \in op.protected /\ Handled(r, {r}) /\ UNCHANGED <<disk, runs>>
       \/ r.name \notin op.protected /\ ~Same(r) /\ Handled(r, {}) /\ UNCHANGED <<disk, runs>>
       \/ r.name \notin op.protected /\ Same(r) /\ Unlinks(r) /\ Handled(r, {}) /\ UNCHANGED runs
       \/ r.name \notin op.protected /\ Same(r) /\ Fault /\ Handled(r, {r}) /\ UNCHANGED disk
    /\ UNCHANGED <<saved, runtime, page, drafts, owned, journal, preview, made, byHand>>
Cleaned ==
    /\ op.at \in {"clean", "sweep"} /\ op.left = {} /\ op' = Idle
    /\ journal' = IF op.at = "clean" THEN op.stay ELSE journal
    /\ UNCHANGED <<disk, saved, runtime, page, drafts, owned, preview, made, runs, byHand>>

(* unused(): shown first, and deleted if it is still the same.             *)
Unused == Recorded(Names \ Protected(saved, drafts))
Previews(p) ==
    /\ Free /\ preview' = [preview EXCEPT ![p] = Unused]
    /\ UNCHANGED <<disk, saved, runtime, page, drafts, owned, journal, op, made, runs, byHand>>
Sweeps(p) ==
    /\ Free /\ preview[p] = Unused /\ Unused # {}
    /\ op' = [Idle EXCEPT !.at = "sweep", !.left = Unused]
    /\ preview' = [preview EXCEPT ![p] = {NotShown}]
    /\ UNCHANGED <<disk, saved, runtime, page, drafts, owned, journal, made, runs, byHand>>

-----------------------------------------------------------------------------
(* The process ends, at any point, and starts with what was saved. Pages   *)
(* stay open, but nobody protects their drafts any more.                   *)
Restarts ==
    /\ Fault /\ runtime' = saved
    /\ drafts' = [p \in Pages |-> {}] /\ owned' = drafts'
    /\ op' = [Idle EXCEPT !.at = "clean", !.left = journal, !.protected = Named(saved)]
    /\ UNCHANGED <<disk, saved, page, journal, preview, made, byHand>>

Next ==
    \/ \E p \in Pages :
         \/ \E n \in Names : Generates(p, n) \/ \E m \in Names : Optimizes(p, n, m)
         \/ \E new \in Candidates(p) :
              PrepareFails(p, new) \/ \E gone \in SUBSET page[p] : PrepareSave(p, new, gone)
         \/ Previews(p) \/ Sweeps(p)
    \/ \E n \in Names : Copies(n)
    \/ \E r \in op.left : Cleanup(r)
    \/ ProtectDraft \/ Saves \/ SaveFails \/ Cleaned \/ Restarts

Spec == Init /\ [][Next]_vars

-----------------------------------------------------------------------------
(* No file is deleted that is named by the saved configuration, by the one *)
(* that runs or by a draft of any page, though its deletion was written    *)
(* down before a save that failed, a restart or the file's renewal. What   *)
(* was copied by hand is deleted only if somebody has seen it in the list  *)
(* of what is unused.                                                      *)
Deleted(n) == disk[n] # 0 /\ disk'[n] = 0
AudioKept ==
    [][\A n \in Names : Deleted(n) =>
         /\ n \notin Named(saved) \cup Named(runtime)
         /\ \A p \in Pages : n \notin drafts[p]
         /\ disk[n] \in byHand => op.at = "sweep"]_vars
===============================================================================
