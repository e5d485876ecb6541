------------------------------- MODULE FileIO -------------------------------
(***************************************************************************)
(* Loading and saving a file in vim-cpp/vc-06.  The file is read line by   *)
(* line, or mapped and indexed; it is saved through a temporary file that  *)
(* is synced and renamed.  Calls fail, write takes part of what it gets,   *)
(* and the machine may stop between any two steps.  One process saves.     *)
(***************************************************************************)
EXTENDS Integers, Sequences

CONSTANTS Contents,      \* contents of the file that is loaded: sequences
          NL,            \* the newline among their bytes
          Missing        \* there is no file of that name

VARIABLES data,          \* the file, as it is mapped
          target,        \* the file that is replaced: its bytes or Missing
          before,        \* history: what it was at first
          tmp,           \* the temporary file
          synced,        \* its bytes are on the disk
          written,       \* how many bytes atomic_save has written
          spc            \* where the saver is

vars == <<data, target, before, tmp, synced, written, spc>>

Init ==
  /\ data \in Contents
  /\ before \in {Missing, <<>>, <<NL>>} /\ target = before
  /\ tmp = Missing /\ synced = FALSE /\ written = 0 /\ spc = "load"

(* The two loaders: the lines they hand out. *)

getlines(s) ==
  LET Upto[i \in 0..Len(s)] ==
        IF i = 0 THEN [lines |-> <<>>, line |-> <<>>]
        ELSE LET st == Upto[i - 1]
             IN  IF s[i] = NL THEN [lines |-> Append(st.lines, st.line), line |-> <<>>]
                 ELSE [st EXCEPT !.line = Append(@, s[i])]
      end == Upto[Len(s)]
  IN  IF end.line = <<>> THEN end.lines ELSE Append(end.lines, end.line)

line_off(s) == <<0>> \o SelectSeq([i \in 1..(Len(s) - 1) |-> i], LAMBDA i : s[i] = NL)

line(s, n) ==
  SubSeq(s, line_off(s)[n] + 1,
         IF n < Len(line_off(s)) THEN line_off(s)[n + 1] - 1 ELSE Len(s))

(* The saver. *)

Stay == UNCHANGED <<data, before>>
Give(result) == spc' = result

\* MmapBuffer::load fails for a file that is empty or cannot be mapped.
Load ==
  /\ spc = "load"
  /\ \/ data /= <<>> /\ Give("open")
     \/ Give("failed")
  /\ Stay /\ UNCHANGED <<target, tmp, synced, written>>

OpenTmp ==
  /\ spc = "open"
  /\ \/ tmp' = <<>> /\ synced' = FALSE /\ Give("write")
     \/ Give("failed") /\ UNCHANGED <<tmp, synced>>
  /\ Stay /\ UNCHANGED <<target, written>>

Write ==
  /\ spc = "write" /\ written < Len(data)
  /\ \/ \E n \in 1..(Len(data) - written) :
          /\ tmp' = tmp \o SubSeq(data, written + 1, written + n)
          /\ written' = written + n /\ UNCHANGED spc
     \/ tmp' = Missing /\ Give("failed") /\ UNCHANGED written
  /\ Stay /\ UNCHANGED <<target, synced>>

\* Mutant: the file is renamed without having been synced.
Fsync_Skipped ==
  /\ spc = "write" /\ written = Len(data)
  /\ Give("rename")
  /\ Stay /\ UNCHANGED <<target, tmp, synced, written>>

Fsync ==
  /\ spc = "write" /\ written = Len(data)
  /\ \/ synced' = TRUE /\ Give("rename") /\ UNCHANGED tmp
     \/ tmp' = Missing /\ Give("failed") /\ UNCHANGED synced
  /\ Stay /\ UNCHANGED <<target, written>>

Rename ==
  /\ spc = "rename"
  /\ \/ target' = tmp /\ Give("saved")
     \/ Give("failed") /\ UNCHANGED target
  /\ tmp' = Missing
  /\ Stay /\ UNCHANGED <<synced, written>>

\* What is left on the disk when the machine stops: of a file that was not synced
\* any prefix, and the old name or the new one if the directory was not written.
Crash ==
  /\ spc /= "crashed" /\ Give("crashed")
  /\ LET OnDisk(f) == IF synced \/ f = Missing THEN {f} ELSE {SubSeq(f, 1, n) : n \in 0..Len(f)}
     IN  /\ target' \in {before} \cup (IF spc = "saved" THEN OnDisk(target) ELSE {target})
         /\ tmp' \in OnDisk(tmp)
  /\ Stay /\ UNCHANGED <<synced, written>>

Next == Load \/ OpenTmp \/ Write \/ Fsync \/ Rename \/ Crash

Spec == Init /\ [][Next]_vars

------------------------------------------------------------------------------
\* Whatever fails and whenever the machine stops, the file is whole: as it was or
\* as it was to be, the latter exactly when the saver reports it; and a saver
\* that fails leaves no temporary file behind.
SaveIsAtomic ==
  /\ target \in {before, data}
  /\ spc = "saved" => target = data
  /\ spc = "failed" => target = before
  /\ spc \in {"saved", "failed"} => tmp = Missing

\* The two loaders number the same lines; only the last line of the mapped file
\* keeps the newline that ends the file.
LoadersAgree ==
  data /= <<>> =>
    /\ Len(line_off(data)) = Len(getlines(data))
    /\ \A n \in 1..Len(line_off(data)) :
         \/ line(data, n) = getlines(data)[n]
         \/ n = Len(line_off(data)) /\ line(data, n) = Append(getlines(data)[n], NL)
=============================================================================
