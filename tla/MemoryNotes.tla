---------------------------- MODULE MemoryNotes ----------------------------
(***************************************************************************)
(* The note of one memory in the vault (projection.rs, projection/files.rs *)
(* and run_projection of daemon.rs).  The database is authoritative and a  *)
(* synchronization replaces local edits, but what somebody typed stays in  *)
(* the Recovery directory.  The user's editor, the writers of the          *)
(* database, a crash and the publisher interleave at every file operation; *)
(* the publishers themselves are serialized by Application.projection.     *)
(*                                                                         *)
(* A file is an inode; names lead to inodes.  The text of an inode is the  *)
(* rendering of a revision or what the user typed.  The editor keeps the   *)
(* file it opened and writes in place, or replaces the file.               *)
(***************************************************************************)
EXTENDS Naturals, FiniteSets

CONSTANTS Nobody,
          MaxInodes,  \* bound: files ever created
          MaxEdits,   \* bound: texts the user types
          MaxRev,     \* bound: revisions of the memory
          MaxFaults   \* bound: crashes

VARIABLES
    text,      \* the content of every inode
    name,      \* the note's inode, or Nobody
    recovery,  \* the inodes in Recovery
    editor,    \* the inode the user's editor has open
    edits,     \* texts typed so far
    latest,    \* history: where the user's last text was saved: file text or Nobody
    rev,       \* the memory's revision
    prepared, published, \* memory_projection
    failed,    \* memory_projection.error is set
    sync,      \* sync_one: where it is and what it read
    pass,      \* which page runs next: what is pending, or everything
    faults

vars == <<text, name, recovery, editor, edits, latest, rev, prepared, published, failed, sync,
          pass, faults>>

Inodes == 1..MaxInodes
Typed(n) == <<"typed", n>>
Rendered(r) == <<"rev", r>>
Unused == {i \in Inodes : text[i] = Nobody}
NewInode == CHOOSE i \in Unused : \A j \in Unused : i <= j
TextAt(i) == IF i = Nobody THEN Nobody ELSE text[i]
Idle == [at |-> "idle", expected |-> Nobody, rev |-> 0, temp |-> Nobody, saved |-> Nobody]

Init ==
    /\ text = [i \in Inodes |-> Nobody] /\ name = Nobody /\ recovery = {}
    /\ editor = Nobody /\ edits = 0 /\ latest = Nobody
    /\ rev = 1 /\ prepared = 0 /\ published = 0 /\ failed = FALSE
    /\ sync = Idle /\ pass = "pending" /\ faults = 0

User == <<editor, edits, latest>>
Files == <<text, name, recovery>>
Record == <<prepared, published, failed>>

----------------------------------------------------------------------------
(* The user and the writers of the database *)

Open == /\ name # Nobody /\ editor' = name
        /\ UNCHANGED <<Files, edits, latest, rev, Record, sync, pass, faults>>

\* An editor that writes in place reaches the inode it opened, wherever its name is now.
SaveInPlace ==
    /\ editor # Nobody /\ edits < MaxEdits
    /\ edits' = edits + 1 /\ latest' = Typed(edits')
    /\ text' = [text EXCEPT ![editor] = latest']
    /\ UNCHANGED <<name, recovery, editor, rev, Record, sync, pass, faults>>

\* Another replaces the file; the user gives up the text that was there.
SaveAnew ==
    /\ edits < MaxEdits /\ Unused # {}
    /\ edits' = edits + 1 /\ latest' = Typed(edits')
    /\ text' = [text EXCEPT ![NewInode] = latest'] /\ name' = NewInode /\ editor' = NewInode
    /\ UNCHANGED <<recovery, rev, Record, sync, pass, faults>>

Revise ==
    /\ rev < MaxRev /\ rev' = rev + 1
    /\ UNCHANGED <<Files, User, Record, sync, pass, faults>>

----------------------------------------------------------------------------
(* sync_one *)

World == <<editor, edits, latest, rev, pass, faults>>

\* sync_pending takes what is not published or failed; sync takes every memory.
Due == pass = "all" \/ published < rev \/ prepared # 0 \/ failed
Begin ==
    /\ sync.at = "idle" /\ Due
    /\ sync' = [Idle EXCEPT !.at = "show", !.expected = TextAt(name)]
    /\ UNCHANGED <<Files, World, Record>>
NextPass ==
    /\ sync.at = "idle" /\ pass' = IF pass = "pending" THEN "all" ELSE "pending"
    /\ pass = "all" \/ ~Due
    /\ UNCHANGED <<Files, User, rev, Record, sync, faults>>

Show ==
    /\ sync.at = "show"
    /\ IF sync.expected = Rendered(rev)
       THEN sync' = [sync EXCEPT !.at = "acknowledge", !.rev = rev] /\ UNCHANGED prepared
       ELSE sync' = [sync EXCEPT !.at = "compare", !.rev = rev] /\ prepared' = rev
    /\ UNCHANGED <<Files, World, published, failed>>

Fail == sync' = Idle /\ failed' = TRUE

\* publish: the note is still as it was read, and its new text is written aside.
Compare ==
    /\ sync.at = "compare"
    /\ IF TextAt(name) # sync.expected \/ Unused = {} THEN Fail /\ UNCHANGED <<Files>>
       ELSE /\ text' = [text EXCEPT ![NewInode] = Rendered(sync.rev)]
            /\ sync' = [sync EXCEPT !.at = IF sync.expected = Nobody THEN "link" ELSE "capture",
                                    !.temp = NewInode]
            /\ UNCHANGED <<name, recovery, failed>>
    /\ UNCHANGED <<World, prepared, published>>

\* The note moves to Recovery, whoever has it open.
Capture ==
    /\ sync.at = "capture"
    /\ IF name = Nobody THEN Fail /\ UNCHANGED <<name, recovery>>
       ELSE /\ recovery' = recovery \union {name} /\ name' = Nobody
            /\ sync' = [sync EXCEPT !.at = "captured", !.saved = name]
            /\ UNCHANGED failed
    /\ UNCHANGED <<text, World, prepared, published>>

AsExpected == text[sync.saved] = sync.expected

\* What was captured is what was read, or it gets its name back unless a new file has it.
Captured ==
    /\ sync.at = "captured"
    /\ IF AsExpected THEN sync' = [sync EXCEPT !.at = "link"] /\ UNCHANGED <<name, failed>>
       ELSE Fail /\ name' = IF name = Nobody THEN sync.saved ELSE name
    /\ UNCHANGED <<text, recovery, World, prepared, published>>

\* Mutant: the new note is renamed over whatever is there.
FreeAlways == TRUE

Free == name = Nobody

\* hard_link: never over a file that appeared meanwhile.
Link ==
    /\ sync.at = "link"
    /\ IF Free THEN name' = sync.temp /\ sync' = [sync EXCEPT !.at = "acknowledge"] /\ UNCHANGED failed
       ELSE Fail /\ UNCHANGED name
    /\ UNCHANGED <<text, recovery, World, prepared, published>>

Acknowledge ==
    /\ sync.at = "acknowledge" /\ sync' = Idle
    /\ IF published <= sync.rev
       THEN published' = sync.rev /\ prepared' = 0 /\ failed' = FALSE
       ELSE UNCHANGED Record
    /\ UNCHANGED <<Files, World>>

Crash ==
    /\ faults < MaxFaults /\ faults' = faults + 1
    /\ sync' = Idle /\ pass' = "pending"
    /\ UNCHANGED <<Files, User, rev, Record>>

Next ==
    \/ Open \/ SaveInPlace \/ SaveAnew \/ Revise
    \/ Begin \/ NextPass \/ Show \/ Compare \/ Capture \/ Captured \/ Link \/ Acknowledge
    \/ Crash

Spec == Init /\ [][Next]_vars

----------------------------------------------------------------------------
\* What the user typed last is in the note or in Recovery.
TypedKept ==
    latest # Nobody => \E i \in recovery \union ({name} \ {Nobody}) : text[i] = latest

\* A note that is not what its record says is known to need repair, unless the user changed it:
\* neither a crash between two file operations nor a failed one goes unnoticed.
RepairKnown ==
    \/ name # Nobody /\ (text[name] = Rendered(published) \/ text[name][1] = "typed")
    \/ published < rev \/ prepared # 0 \/ failed \/ sync.at = "acknowledge"

NotesKept == TypedKept /\ RepairKnown
=============================================================================
