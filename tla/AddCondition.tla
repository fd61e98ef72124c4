---------------------------- MODULE AddCondition ----------------------------
(***************************************************************************)
(* append_condition: requests of the web page and of the wizard add one    *)
(* condition each to conditions.json.  A request reads the file, writes    *)
(* the longer document to a temporary file whose name all requests share,  *)
(* validates that file and renames it.  There is no lock.                  *)
(*                                                                         *)
(* A file name leads to an inode; a rename moves the inode, and who has it *)
(* open goes on writing to it.                                             *)
(***************************************************************************)
EXTENDS Naturals, Sequences, FiniteSets

CONSTANTS
    Requests,   \* the requests, each served by a thread or process
    Asked,      \* the condition each request adds
    Overlay,    \* its prompt_overlay: [path, text], or None
    Paths,      \* overlay files
    Given,      \* the document of the checkout
    Inodes,     \* enough for both files and every open one
    Partial,    \* content of a file that is truncated and not yet written
    None        \* stands for what does not exist

AllowedTypes == {"prompt_overlay", "config_ref", "env", "plugin_dir", "proxy"}

----------------------------------------------------------------------------
(* load_conditions *)

\* tools and probes are sets of names; an injection says whether its path is
\* relative to the repository and whether its name is one the runner owns.
\* wellFormed sums up what is asked of keys, types and patterns.
ValidInjection(j) ==
    /\ j.type \in AllowedTypes
    /\ j.wellFormed
    /\ j.type \in {"prompt_overlay", "config_ref"} => j.relative
    /\ j.type = "env" => ~j.reserved

ValidCondition(c) ==
    LET proxies == {k \in DOMAIN c.injections : c.injections[k].type = "proxy"}
        needsRepository ==
            \/ c.tools # {}
            \/ \E k \in DOMAIN c.injections :
                  c.injections[k].type \in {"plugin_dir", "proxy"}
    IN /\ c.wellFormed
       /\ c.repeat >= 1
       /\ c.probes = c.tools
       /\ \A k \in DOMAIN c.injections : ValidInjection(c.injections[k])
       /\ \A k, l \in proxies : k = l
       /\ \A k \in proxies : c.injections[k].binary \in c.tools
       /\ needsRepository => c.repository

ValidDocument(d) ==
    /\ d # <<>>
    /\ \A k \in DOMAIN d : ValidCondition(d[k])
    /\ \A k, l \in DOMAIN d :
          k # l => d[k].id # d[l].id /\ d[k].label # d[l].label

\* The declarations of the checkout are valid.
Checkout ==
    /\ Partial # None
    /\ Given \notin {Partial, None}
    /\ ValidDocument(Given)
    /\ Inodes # {} /\ None \notin Inodes

----------------------------------------------------------------------------
VARIABLES
    pc,         \* where each request is
    document,   \* the document it has made
    handle,     \* the inode it writes to
    disk,       \* contents of the inodes
    file,       \* the inode of conditions.json
    tmp,        \* the inode of conditions.json.tmp, or None
    overlays    \* the overlay files

vars == <<pc, document, handle, disk, file, tmp, overlays>>

Init ==
    /\ pc = [q \in Requests |-> "start"]
    /\ document = [q \in Requests |-> None]
    /\ handle = [q \in Requests |-> None]
    /\ file \in Inodes
    /\ disk = [i \in Inodes |-> IF i = file THEN Given ELSE None]
    /\ tmp = None
    /\ overlays = [p \in Paths |-> None]

Goto(q, place) == pc' = [pc EXCEPT ![q] = place]

\* The overlay file is made first, unless there is one.
MakeOverlay(q) ==
    /\ pc[q] = "start"
    /\ overlays' =
        IF Overlay[q] # None /\ overlays[Overlay[q].path] = None
        THEN [overlays EXCEPT ![Overlay[q].path] = Overlay[q].text]
        ELSE overlays
    /\ Goto(q, "reading")
    /\ UNCHANGED <<document, handle, disk, file, tmp>>

\* A file that is no JSON ends the request.
Read(q) ==
    /\ pc[q] = "reading"
    /\ IF disk[file] = Partial
       THEN Goto(q, "failed") /\ UNCHANGED document
       ELSE /\ document' = [document EXCEPT ![q] = Append(disk[file], Asked[q])]
            /\ Goto(q, "opening")
    /\ UNCHANGED <<handle, disk, file, tmp, overlays>>

\* write_text opens the temporary file: it is truncated, or made.
OpenTmp(q) ==
    /\ pc[q] = "opening"
    /\ \E i \in Inodes :
          /\ IF tmp # None THEN i = tmp
             ELSE i # file /\ \A p \in Requests : i # handle[p]
          /\ tmp' = i
          /\ handle' = [handle EXCEPT ![q] = i]
          /\ disk' = [disk EXCEPT ![i] = Partial]
    /\ Goto(q, "writing")
    /\ UNCHANGED <<document, file, overlays>>

WriteTmp(q) ==
    /\ pc[q] = "writing"
    /\ disk' = [disk EXCEPT ![handle[q]] = document[q]]
    /\ handle' = [handle EXCEPT ![q] = None]
    /\ Goto(q, "validating")
    /\ UNCHANGED <<document, file, tmp, overlays>>

\* load_conditions reads whatever is under the temporary name by now.
Passes == tmp # None /\ disk[tmp] # Partial /\ ValidDocument(disk[tmp])

Validate(q) ==
    /\ pc[q] = "validating"
    /\ Goto(q, IF Passes THEN "renaming" ELSE "refusing")
    /\ UNCHANGED <<document, handle, disk, file, tmp, overlays>>

Refuse(q) ==
    /\ pc[q] = "refusing"
    /\ tmp' = None
    /\ Goto(q, "refused")
    /\ UNCHANGED <<document, handle, disk, file, overlays>>

Rename(q) ==
    /\ pc[q] = "renaming"
    /\ IF tmp = None
       THEN Goto(q, "failed") /\ UNCHANGED <<file, tmp>>
       ELSE Goto(q, "added") /\ file' = tmp /\ tmp' = None
    /\ UNCHANGED <<document, handle, disk, overlays>>

\* The process stops; its temporary file stays.
Die(q) ==
    /\ pc[q] \in {"reading", "opening", "writing", "validating", "refusing",
                  "renaming"}
    /\ Goto(q, "failed")
    /\ handle' = [handle EXCEPT ![q] = None]
    /\ UNCHANGED <<document, disk, file, tmp, overlays>>

Step(q) ==
    \/ MakeOverlay(q) \/ Read(q) \/ OpenTmp(q) \/ WriteTmp(q)
    \/ Validate(q) \/ Refuse(q) \/ Rename(q) \/ Die(q)

Next == \E q \in Requests : Step(q)

Spec == Init /\ [][Next]_vars

Ended == {"failed", "refused", "added"}

\* One request at a time: the others have not begun or have ended.
OneAtATime ==
    \E q \in Requests :
        /\ Step(q)
        /\ \A p \in Requests \ {q} : pc[p] \in Ended \union {"start"}

SerialSpec == Init /\ [][OneAtATime]_vars

----------------------------------------------------------------------------
(* Properties *)

\* conditions.json never holds what the validator would refuse.
OnlyValidated == disk[file] # Partial /\ ValidDocument(disk[file])
=============================================================================
