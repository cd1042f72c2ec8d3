------------------------------- MODULE CloudClone -------------------------------
(***************************************************************************)
(* A new node is made from one that is in the Cloud already                *)
(* (config/cloud_clone.py, then config/cloud_restore.py and                *)
(* config/first_run.py). It must get into two files that can only be       *)
(* replaced one at a time, the configuration's manifest and the recovery   *)
(* descriptor, and then become the identity of the host that asked for it. *)
(* Several hosts may ask for the same node ID; each keeps a journal, and   *)
(* its operator repeats a call that was interrupted.                       *)
(*                                                                         *)
(* All ask with the assignment of the same node, so what they write into   *)
(* the configuration is equal: only the manifest's file tells whose it is. *)
(* Files never change once uploaded, so an upload is part of the step that *)
(* names it.                                                               *)
(***************************************************************************)
EXTENDS Integers

CONSTANTS Hosts,      \* hosts on which a clone of the node is asked for
          MaxSaves,   \* bound: saves of others to the configuration
          MaxBackups, \* bound: other nodes' new entries in the descriptor
          MaxFiles,   \* bound: configurations uploaded by clones
          MaxFaults   \* bound: crashes, lost requests, lost answers

VARIABLES
    manifest,   \* of the configuration: its revision and its file
    content,    \* the new node's author in that file, and others' saves in it
    descriptor, \* its ETag, and whose backup it names for the new node
    puts,       \* replacements of either file on their way, with the answers
    files,      \* configurations uploaded so far
    journal,    \* .cloud-clone/journal.json of each host
    run,        \* the call on each host: where, and what it has read
    local,      \* the host's own files: recovery intent, identity, first-run marker
    saved,      \* history: others' saves that the Cloud took
    faults

cloud == <<manifest, content, descriptor, puts, files, saved>>
vars == <<cloud, journal, run, local, faults>>

None == "none"
Owners == Hosts \cup {None}
NotTried == [revision |-> 0, file |-> 0]
NoJournal == [made |-> FALSE, backup |-> FALSE, attempt |-> NotTried, published |-> FALSE]
Off == [at |-> "off", etag |-> 0]
Manifests == [revision : 0 .. MaxSaves + MaxFiles + 1, file : 0 .. MaxFiles]

\* Files and calls are what the code writes; requests name what was uploaded.
TypeOK ==
    /\ manifest \in Manifests /\ files \in 0 .. MaxFiles /\ faults \in 0 .. MaxFaults
    /\ content \in [by : Owners, saves : 0 .. MaxSaves]
    /\ descriptor \in [etag : Nat, by : Owners]
    /\ \A p \in puts : p.host \in Hosts /\ p.file \in 0 .. files
    /\ journal \in [Hosts -> [made : BOOLEAN, backup : BOOLEAN, attempt : Manifests,
                              published : BOOLEAN]]
    /\ \A h \in Hosts : journal[h].published => journal[h].attempt # NotTried
    /\ local \in [Hosts -> [intent : BOOLEAN, files : 0 .. 3, first : BOOLEAN]]
    /\ saved \in 0 .. MaxSaves

Init ==
    /\ manifest = [revision |-> 1, file |-> 0] /\ content = [by |-> None, saves |-> 0]
    /\ descriptor = [etag |-> 0, by |-> None]
    /\ puts = {} /\ files = 0 /\ saved = 0 /\ faults = 0
    /\ journal = [h \in Hosts |-> NoJournal] /\ run = [h \in Hosts |-> Off]
    /\ local = [h \in Hosts |-> [intent |-> FALSE, files |-> 0, first |-> TRUE]]

Faulty == faults < MaxFaults /\ faults' = faults + 1
Goes(h, step) == run' = [run EXCEPT ![h].at = step]
Fails(h) == run' = [run EXCEPT ![h] = Off]
Checks(h, fine, step) == IF fine THEN Goes(h, step) ELSE Fails(h)
Writes(h, j) == journal' = [journal EXCEPT ![h] = j]

-----------------------------------------------------------------------------
(* The call. The descriptor that the operator's choice was made from is    *)
(* read again; without a journal it must not have changed, and the node    *)
(* must be in neither file.                                                *)
Discovers(h) ==
    /\ run[h] = Off /\ local[h].first
    /\ run' = [run EXCEPT ![h] = [at |-> "begin", etag |-> descriptor.etag]]
    /\ UNCHANGED <<cloud, journal, local, faults>>

Free(h) ==
    IF journal[h].made
    THEN descriptor.by = None \/ (descriptor.by = h /\ journal[h].backup)
    ELSE descriptor.by = None /\ descriptor.etag = run[h].etag
Begins(h) ==
    /\ run[h].at = "begin" /\ Checks(h, Free(h), "plan")
    /\ UNCHANGED <<cloud, journal, local, faults>>

(* _accept_config(): the node in the configuration is this journal's work. *)
(* An equal assignment does not prove it: until the publication has been   *)
(* written down, the manifest must be the one that was tried.              *)
(* Variant: an equal assignment is enough.                                 *)
EqualSuffices(h) == content.by # None /\ journal[h].attempt # NotTried
Accepts(h) ==
    LET j == journal[h]
    IN  /\ content.by # None /\ j.attempt # NotTried
        /\ ~j.published => manifest = j.attempt
        /\ manifest.revision >= j.attempt.revision
        /\ manifest.revision = j.attempt.revision => manifest = j.attempt
Absent(h) == content.by = None /\ ~journal[h].published

Plans(h) ==
    /\ run[h].at = "plan"
    /\ LET fits == Absent(h) \/ (journal[h].made /\ Accepts(h))
       IN  /\ Checks(h, fits, "backup")
           /\ Writes(h, [journal[h] EXCEPT !.made = @ \/ fits])
    /\ UNCHANGED <<cloud, local, faults>>

(* The encrypted backup, unless the journal has its pointer.               *)
BacksUp(h) ==
    /\ run[h].at = "backup" /\ Goes(h, "config")
    /\ Writes(h, [journal[h] EXCEPT !.backup = TRUE])
    /\ UNCHANGED <<cloud, local, faults>>

(* _publish_config(): the manifest is in the journal before it is sent.    *)
Put(h, kind, base, file) ==
    [host |-> h, kind |-> kind, base |-> base, file |-> file, saves |-> content.saves,
     awaited |-> TRUE, answer |-> None]
Published(h, fine) ==
    /\ Checks(h, fine, "descriptor")
    /\ Writes(h, [journal[h] EXCEPT !.published = @ \/ fine])
PublishesConfig(h) ==
    /\ run[h].at = "config"
    /\ \/ ~Absent(h) /\ Published(h, Accepts(h)) /\ UNCHANGED <<puts, files>>
       \/ /\ Absent(h) /\ files < MaxFiles /\ files' = files + 1
          /\ Writes(h, [journal[h] EXCEPT !.attempt =
                          [revision |-> manifest.revision + 1, file |-> files']])
          /\ puts' = puts \cup {Put(h, "config", manifest.revision, files')}
          /\ Goes(h, "put")
    /\ UNCHANGED <<manifest, content, descriptor, saved, local, faults>>

(* The configuration is read once more behind a replacement that           *)
(* succeeded.                                                              *)
Confirms(h) ==
    /\ run[h].at = "check" /\ Published(h, Absent(h) \/ Accepts(h))
    /\ UNCHANGED <<cloud, local, faults>>

(* _publish_descriptor().                                                  *)
PublishesDescriptor(h) ==
    /\ run[h].at = "descriptor"
    /\ \/ descriptor.by # None /\ Checks(h, descriptor.by = h, "verify") /\ UNCHANGED puts
       \/ /\ descriptor.by = None /\ Goes(h, "put")
          /\ puts' = puts \cup {Put(h, "descriptor", descriptor.etag, 0)}
    /\ UNCHANGED <<manifest, content, descriptor, files, saved, journal, local, faults>>

(* Both files are read again before anything becomes this host's.          *)
VerifiesConfig(h) ==
    /\ run[h].at = "verify" /\ Checks(h, Accepts(h), "verified")
    /\ UNCHANGED <<cloud, journal, local, faults>>
VerifiesDescriptor(h) ==
    /\ run[h].at = "verified"
    /\ run' = [run EXCEPT ![h] = IF descriptor.by = h
                                 THEN [at |-> "restore", etag |-> descriptor.etag]
                                 ELSE Off]
    /\ UNCHANGED <<cloud, journal, local, faults>>

-----------------------------------------------------------------------------
(* restore_cloud_node(): its own checks, then the host's files, behind an  *)
(* intent that a next call finds. They are written in order (what is there *)
(* already is written again as it is), the bootstrap file last.            *)
Restores(h) ==
    /\ run[h].at = "restore" /\ Checks(h, descriptor.etag = run[h].etag, "stage")
    /\ UNCHANGED <<cloud, journal, local, faults>>

Install(h, step, l) ==
    /\ local' = [local EXCEPT ![h] = l] /\ Goes(h, step)
    /\ UNCHANGED <<cloud, journal, faults>>
Unstages(h) ==
    /\ run[h].at = "stage" /\ local[h].intent
    /\ Install(h, "stage", [local[h] EXCEPT !.intent = FALSE])
Stages(h) ==
    /\ run[h].at = "stage" /\ ~local[h].intent
    /\ Install(h, "install", [local[h] EXCEPT !.intent = TRUE])
Installs(h) ==
    /\ run[h].at = "install" /\ local[h].files < 3
    /\ Install(h, "install", [local[h] EXCEPT !.files = @ + 1])
Installed(h) ==
    /\ run[h].at = "install" /\ local[h].files = 3
    /\ Install(h, "finish", [local[h] EXCEPT !.intent = FALSE])

(* finish_first_run(): the host is a node when it starts again.            *)
Finishes(h) ==
    /\ run[h].at = "finish" /\ Fails(h)
    /\ local' = [local EXCEPT ![h].first = FALSE]
    /\ UNCHANGED <<cloud, journal, faults>>

-----------------------------------------------------------------------------
(* Google Drive decides a replacement when it arrives.                     *)
(* Variant: without If-Match.                                              *)
Whatever(p) == TRUE
Current(p) ==
    IF p.kind = "config" THEN p.base = manifest.revision ELSE p.base = descriptor.etag

Answers(p, answer) ==
    puts' = (puts \ {p}) \cup (IF p.awaited THEN {[p EXCEPT !.answer = answer]} ELSE {})
Decides(p) ==
    /\ p \in puts /\ p.answer = None
    /\ \/ /\ Current(p) /\ p.kind = "config" /\ Answers(p, "done")
          /\ manifest' = [revision |-> p.base + 1, file |-> p.file]
          /\ content' = [by |-> p.host, saves |-> p.saves] /\ UNCHANGED descriptor
       \/ /\ Current(p) /\ p.kind = "descriptor" /\ Answers(p, "done")
          /\ descriptor' = [etag |-> p.base + 1, by |-> p.host]
          /\ UNCHANGED <<manifest, content>>
       \/ ~Current(p) /\ Answers(p, "conflict") /\ UNCHANGED <<manifest, content, descriptor>>
    /\ UNCHANGED <<files, saved, journal, run, local, faults>>

(* The answer arrives.                                                     *)
Behind(kind) == IF kind = "config" THEN "check" ELSE "verify"
Answered(h, p) ==
    /\ p.host = h /\ p.answer # None
    /\ puts' = puts \ {p}
    /\ \/ p.answer = "done" /\ Goes(h, Behind(p.kind))
       \/ p.answer = "conflict" /\ Fails(h)
    /\ UNCHANGED <<manifest, content, descriptor, files, saved, journal, local, faults>>

(* The process dies, or a request of its fails. What it has sent may still *)
(* arrive or be lost; nobody waits for its answer.                         *)
Dies(h) ==
    /\ run[h] # Off /\ Faulty /\ Fails(h)
    /\ LET mine == {p \in puts : p.host = h /\ p.awaited}
           late == {[p EXCEPT !.awaited = FALSE] : p \in {q \in mine : q.answer = None}}
       IN  puts' = puts \ mine \/ puts' = (puts \ mine) \cup late
    /\ UNCHANGED <<manifest, content, descriptor, files, saved, journal, local>>

-----------------------------------------------------------------------------
(* Others save the configuration, or back up a node of theirs.             *)
OthersSave ==
    /\ saved < MaxSaves /\ saved' = saved + 1
    /\ manifest' = [revision |-> manifest.revision + 1, file |-> 0]
    /\ content' = [content EXCEPT !.saves = @ + 1]
    /\ UNCHANGED <<descriptor, puts, files, journal, run, local, faults>>
OthersBackUp ==
    /\ descriptor.etag < MaxBackups + (IF descriptor.by = None THEN 0 ELSE 1)
    /\ descriptor' = [descriptor EXCEPT !.etag = @ + 1]
    /\ UNCHANGED <<manifest, content, puts, files, saved, journal, run, local, faults>>

Step(h) ==
    \/ Discovers(h) \/ Begins(h) \/ Plans(h) \/ BacksUp(h)
    \/ PublishesConfig(h) \/ Confirms(h) \/ PublishesDescriptor(h)
    \/ VerifiesConfig(h) \/ VerifiesDescriptor(h)
    \/ Restores(h) \/ Unstages(h) \/ Stages(h) \/ Installs(h) \/ Installed(h) \/ Finishes(h)

Next ==
    \/ \E h \in Hosts : Step(h) \/ Dies(h) \/ \E p \in puts : Answered(h, p)
    \/ \E p \in puts : Decides(p)
    \/ OthersSave \/ OthersBackUp

Spec == Init /\ [][Next]_vars

-----------------------------------------------------------------------------
(* A host takes the node's identity only when the node is its own in both  *)
(* files; the recovery descriptor never offers a node that the             *)
(* configuration does not have by the same author; and nobody's save of    *)
(* the configuration is lost. So of two hosts that ask for one node ID, at *)
(* most one becomes it, whatever is interrupted or repeated.               *)
CloneIsOwn ==
    /\ \A h \in Hosts : local[h].files > 0 => content.by = h /\ descriptor.by = h
    /\ descriptor.by # None => content.by = descriptor.by
    /\ content.saves = saved
=============================================================================
