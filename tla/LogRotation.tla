------------------------------ MODULE LogRotation ------------------------------
(***************************************************************************)
(* HtmlFormatSink of Log.hpp: the rotating log file.  calc_filename puts   *)
(* the present second into every name, so a name is the second in which it *)
(* was computed and the index.  The file helper keeps the name it was      *)
(* opened with, and reopen(true) truncates that file.                      *)
(*                                                                         *)
(* The sink's mutex makes sink_it_ atomic for the program; the clock does  *)
(* not wait for it, so a rotation is modelled rename by rename.  A message *)
(* and the HTML header are one unit long.  What is written stays in a      *)
(* buffer, which nothing flushes but a rotation: the process may end at    *)
(* any time, with the end of the file not on disk, and opens the log anew  *)
(* (append) when it is started again.                                      *)
(***************************************************************************)
EXTENDS Naturals, FiniteSets, SequencesExt

CONSTANTS
    MaxSize,       \* _maxSize, in messages
    MaxFiles,      \* _maxFiles
    MaxMessages,   \* bound: messages logged
    MaxClock,      \* bound: the last second
    MaxRestarts    \* bound: how often the process is started again

ASSUME LogAssumption == /\ MaxSize \in Nat \ {0}
                        /\ {MaxFiles, MaxMessages, MaxClock, MaxRestarts} \subseteq Nat

VARIABLES
    clock,      \* the present second
    files,      \* the content of the files that exist, by name
    name,       \* the name the file helper was opened with
    size,       \* _currentSize
    next,       \* the message to be logged next
    at,         \* the loop index of a rotation, 0 after its loop, or Idle
    onDisk,     \* how much of the open file is certainly on disk
    others,     \* the messages that were in the other files when the last rotation
                \* began, those with the last index left out
    restarts    \* how often the process was started again

vars == <<clock, files, name, size, next, at, onDisk, others, restarts>>

Seconds == 0 .. MaxClock
Names   == Seconds \X (0 .. MaxFiles)
Header  == 0
Idle    == MaxFiles + 1

calc_filename(second, index) == <<second, index>>

Exists(f) == f \in DOMAIN files

\* files with f's content put into it, or with f removed.
Put(f, content, fs) == [g \in DOMAIN fs \cup {f} |-> IF g = f THEN content ELSE fs[g]]
Without(f, fs)      == [g \in DOMAIN fs \ {f} |-> fs[g]]

Content(fs, f) == IF f \in DOMAIN fs THEN fs[f] ELSE <<>>

\* The constructor: open to append, and write the header, which is in the buffer
\* still when the size of the file is asked for.
Opened(fs, f) == Put(f, Append(Content(fs, f), Header), fs)

Init == /\ clock    = 0
        /\ name     = calc_filename(0, 0)
        /\ files    = Opened(<<>>, name)
        /\ size     = 0
        /\ next     = 1
        /\ at       = Idle
        /\ onDisk   = 0
        /\ others   = {}
        /\ restarts = 0

Tick == /\ clock < MaxClock
        /\ clock' = clock + 1
        /\ UNCHANGED <<files, name, size, next, at, onDisk, others, restarts>>

-----------------------------------------------------------------------------
(* sink_it_.                                                               *)

MessagesIn(fs) == (UNION {Range(files[f]) : f \in fs}) \ {Header}

RotateLate == size > MaxSize /\ Len(files[name]) > 0
MustRotate == size + 1 > MaxSize /\ Len(files[name]) > 0

\* _fileHelper.write(formatted) into an open file.
Write == /\ at = Idle
         /\ next <= MaxMessages
         /\ ~MustRotate
         /\ files' = Put(name, Append(files[name], next), files)
         /\ size'  = size + 1
         /\ next'  = next + 1
         /\ UNCHANGED <<clock, name, at, onDisk, others, restarts>>

\* rotate_: _fileHelper.close(), then the loop from _maxFiles down.
StartRotation == /\ at = Idle
                 /\ next <= MaxMessages
                 /\ MustRotate
                 /\ at'     = MaxFiles
                 /\ others' = MessagesIn({f \in DOMAIN files \ {name} : f[2] < MaxFiles})
                 /\ UNCHANGED <<clock, files, name, size, next, onDisk, restarts>>

\* One turn of the loop.  The clock may tick between the computations of the
\* two names.  rename_file_ removes the target and then renames.
Renamed(source, target) == Put(target, files[source], Without(source, files))

CountingUp        == MaxFiles + 1 - at
Index             == at
Source            == calc_filename(clock, Index - 1)
OneTooFar(second) == calc_filename(second, Index + 1)
Target(second)    == calc_filename(second, Index)

Rename == /\ at \in 1 .. MaxFiles
          /\ IF Exists(Source)
             THEN \E second \in clock .. MaxClock :
                      /\ clock' = second
                      /\ files' = Renamed(Source, Target(second))
             ELSE UNCHANGED <<clock, files>>
          /\ at' = at - 1
          /\ UNCHANGED <<name, size, next, onDisk, others, restarts>>

\* Both attempts fail, the target is removed all the same, the file truncated
\* and the exception loses the message.  The new file gets no header.
RenameFails == /\ at \in 1 .. MaxFiles
               /\ Exists(Source)
               /\ \E second \in clock .. MaxClock :
                      /\ clock' = second
                      /\ files' = Put(name, <<>>, Without(Target(second), files))
               /\ size'   = 0
               /\ next'   = next + 1
               /\ at'     = Idle
               /\ onDisk' = 0
               /\ UNCHANGED <<name, others, restarts>>

\* After the loop: reopen(true), the header, and the message.
Reopened == <<Header, next>>

FinishRotation == /\ at = 0
                  /\ files'  = Put(name, Reopened, files)
                  /\ size'   = 1
                  /\ next'   = next + 1
                  /\ at'     = Idle
                  /\ onDisk' = 0
                  /\ UNCHANGED <<clock, name, others, restarts>>

-----------------------------------------------------------------------------
(* The process ends, by std::abort in most of the ways the program has, and *)
(* is started again.                                                        *)

\* What the end of the process leaves: of the open file, what is on disk and
\* perhaps more; in a rotation, the closed files, of which the next target may
\* have been removed.
LeftOpen == {Put(name, SubSeq(files[name], 1, n), files) : n \in onDisk .. Len(files[name])}
LeftClosed ==
    {files} \cup (IF at > 0 /\ Exists(Source)
                  THEN {Without(Target(clock), files)} ELSE {})
LeftBehind == IF at = Idle THEN LeftOpen ELSE LeftClosed

Restart == /\ restarts < MaxRestarts
           /\ restarts' = restarts + 1
           /\ name'     = calc_filename(clock, 0)
           /\ \E left \in LeftBehind :
                  /\ files'  = Opened(left, name')
                  /\ size'   = Len(Content(left, name'))
                  /\ onDisk' = Len(Content(left, name'))
           /\ at'       = Idle
           /\ UNCHANGED <<clock, next, others>>

Next == \/ Tick \/ Write \/ StartRotation \/ Rename \/ RenameFails
        \/ FinishRotation \/ Restart

Spec == Init /\ [][Next]_vars

-----------------------------------------------------------------------------
(* Properties.                                                             *)

\* Types; the open file has the name of a second that has come, and no index is
\* greater than MaxFiles.
TypeOK == /\ clock \in Seconds
          /\ name \in Seconds \X {0}
          /\ name[1] <= clock
          /\ DOMAIN files \subseteq Names
          /\ \A f \in DOMAIN files : files[f] \in Seq(Nat)
          /\ size \in Nat
          /\ next \in Nat \ {Header}
          /\ at \in 0 .. Idle
          /\ onDisk \in Nat
          /\ others \subseteq Nat \ {Header}
          /\ restarts \in Nat

\* A rotation can drop the file it rotates and a file with the last index, and
\* no message of any other file: however late it is, at whatever seconds its
\* names are computed, when a rename fails and when the process ends half-way.
\* (A rotation later than the second the open file is named after finds nothing
\* to rename, so that it does drop the open file.)
OthersSurvive == others \subseteq MessagesIn(DOMAIN files)

\* No file holds more messages than MaxSize, or more bytes than that and one
\* header that _currentSize does not count, and one for each time a process
\* opened it again: that holds too after late rotations and failed renames.
Messages(content) == {i \in DOMAIN content : content[i] # Header}
SizeBounded ==
    \A f \in DOMAIN files :
        /\ Len(files[f]) <= MaxSize + 1 + restarts
        /\ Cardinality(Messages(files[f])) <= MaxSize
=============================================================================
