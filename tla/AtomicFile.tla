---------------------------- MODULE AtomicFile ----------------------------
(***************************************************************************)
(* The disk of the machine as the file utilities of the agent see it:      *)
(* AtomicWriteFileStream and AtomicWrite write a temporary file beside the *)
(* target and rename it. One write is under way at a time, since the jobs  *)
(* that write run one after the other in the tasker. A write is a sequence *)
(* of system calls: each may fail, and the process may die between them.   *)
(***************************************************************************)
EXTENDS Integers

CONSTANTS Paths, Data

VARIABLES
    files,   \* files[p]: what is at path p
    temps,   \* the temporary files on disk: [path, kind, why], why they are there
    write    \* the write under way

diskVars == <<files, temps, write>>

Absent == <<"absent", "">>
Whole(d) == <<"whole", d>>
Part(d) == <<"part", d>>
LinkTo(q) == <<"link", q>>
NoSum == "nosum"

\* Where a path leads, and what is there when links are followed. A chain of links
\* is one link to where the chain ends.
Leads(p) == IF files[p][1] = "link" THEN files[p][2] ELSE p
At(p) == files[Leads(p)]

\* A write of data d to path p; sum is the data the caller's checksum is of.
NewWrite(kind, p, d, sum) ==
    [pc |-> "create", kind |-> kind, path |-> p, data |-> d, sum |-> sum]
NoWrite == [pc |-> "none", kind |-> "bytes", path |-> "", data |-> "", sum |-> NoSum]

Temp(why) == [path |-> write.path, kind |-> write.kind, why |-> why]

DiskInit == temps = {} /\ write = NoWrite

WriteAt(pc) == write' = [write EXCEPT !.pc = pc]

\* Variant of TempFile that opens the target itself.
TempFileIsTarget ==
    /\ write.pc = "create"
    /\ files' = [files EXCEPT ![write.path] = Part(write.data)]
    /\ temps' = temps \cup {Temp("open")}
    /\ WriteAt("copy")

\* O_EXCL with a random suffix: it may also fail because the name is taken.
TempFile ==
    /\ write.pc = "create"
    /\ \/ temps' = temps \cup {Temp("open")} /\ WriteAt("copy")
       \/ WriteAt("err") /\ UNCHANGED temps
    /\ UNCHANGED files

\* Whether the deferred function sees an error from this place. The one of
\* AtomicWriteFileStream looks at the err that only the copy sets.
CleansUp(where) == write.kind = "bytes" \/ where = "copy"

FailAt(where) ==
    /\ write.pc = where
    /\ WriteAt("err")
    /\ temps' = IF CleansUp(where) THEN temps \ {Temp("open")}
                ELSE (temps \ {Temp("open")}) \cup {Temp("failed")}
    /\ UNCHANGED files

\* From a system call to the next one.
Advance(from, to) ==
    /\ write.pc = from
    /\ WriteAt(to)
    /\ UNCHANGED <<files, temps>>

Mismatch == write.sum \notin {NoSum, write.data}

Checksum ==
    \/ ~Mismatch /\ Advance("check", "close")
    \/ Mismatch /\ FailAt("check")

\* The rename replaces a link, and not the file it leads to.
Rename ==
    /\ write.pc = "rename"
    /\ files' = [files EXCEPT ![write.path] = Whole(write.data)]
    /\ temps' = temps \ {Temp("open")}
    /\ WriteAt("ok")

WriteStep ==
    \/ TempFile
    \/ Advance("copy", "check") \/ FailAt("copy")
    \/ Checksum
    \/ Advance("close", "rename") \/ FailAt("close")
    \/ Rename \/ FailAt("rename")

Writing == write.pc \notin {"none", "ok", "err"}

\* The process dies: the temporary files stay.
DiskCrash ==
    /\ temps' = {[t EXCEPT !.why = "crash"] : t \in temps}
    /\ write' = NoWrite
=============================================================================
