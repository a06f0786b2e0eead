-------------------------------- MODULE Logger --------------------------------
(***************************************************************************)
(* The file logs (utils/logger.cpp): the server and the command-line tools *)
(* beside it log to one directory, each with a Logger of its own.          *)
(*                                                                         *)
(* The directory has one entry per day, log_<day>.txt, and the archives    *)
(* log_<day>.tar.gz, log_<day>.1.tar.gz, ... of the days.  A process keeps *)
(* the file it has opened, whatever becomes of its entry.  The log call    *)
(* that fills the file rotates it, holding mu_: no other thread of the     *)
(* process logs meanwhile, so a process is one actor here.  Other          *)
(* processes, midnight, failures and kills come between the steps.         *)
(*                                                                         *)
(* A line is its number, and has a length in bytes, which is what          *)
(* max_file_size is compared with.                                         *)
(***************************************************************************)
EXTENDS Integers, Sequences

CONSTANTS
    Server,    \* the server process
    Tools,     \* other processes that log to the directory
    MaxDay,    \* bound on days
    MaxSize,   \* max_file_size
    MaxLine,   \* bound on the length of a line
    MaxLines,  \* bound on lines: of the server, in all its lives
    ToolLines, \* lines a run of a tool logs
    MaxFaults  \* bound on the faults there are: kills, failures of fopen or tar

Procs == Tools \cup {Server}
Days == 1..MaxDay

\* A tool logs a few lines: it never fills a file.
ASSUME LoggerAssumption ==
    /\ Server \notin Tools
    /\ MaxDay \in Nat \ {0}
    /\ MaxSize \in Nat \ {0} /\ MaxLine \in Nat \ {0} /\ MaxLines \in Nat
    /\ ToolLines \in Nat /\ ToolLines * MaxLine < MaxSize
    /\ MaxFaults \in Nat

VARIABLES
    day,      \* the date
    entry,    \* per day: the file its entry names, or 0
    files,    \* the files there have been: sets of lines
    archives, \* per day: its archives in order, [lines, whole]
    proc,     \* per process: its Logger, and where it is in RotateLogFile
    lines,    \* history, per process: lines logged
    opens,    \* history, per file: how often the server has opened it
    bytes,    \* history, per file: how much the server has written to it
    faults    \* history: faults there have been

vars == <<day, entry, files, archives, proc, lines, opens, bytes, faults>>

\* current_date_ stands for current_log_path_ as well.
Down == [pc |-> "down", file |-> 0, date |-> 0, size |-> 0]

Init ==
    /\ day = 1
    /\ entry = [d \in Days |-> 0]
    /\ files = <<>> /\ opens = <<>> /\ bytes = <<>>
    /\ archives = [d \in Days |-> <<>>]
    /\ proc = [p \in Procs |-> Down]
    /\ lines = [p \in Procs |-> 0]
    /\ faults = 0

Fault == faults < MaxFaults /\ faults' = faults + 1

Midnight ==
    /\ day + 1 \in Days
    /\ day' = day + 1
    /\ UNCHANGED <<entry, files, archives, proc, lines, opens, bytes, faults>>

\* fopen(..., "a") of today's entry, which is made if there is none.  The
\* size is counted from 0, whatever the file holds.
CreateNewLogFile(p) ==
    LET made == entry[day] = 0
        f == IF made THEN Len(files) + 1 ELSE entry[day]
        one == IF p = Server THEN 1 ELSE 0
    IN  /\ files' = IF made THEN Append(files, {}) ELSE files
        /\ opens' = IF made THEN Append(opens, one) ELSE [opens EXCEPT ![f] = @ + one]
        /\ bytes' = IF made THEN Append(bytes, 0) ELSE bytes
        /\ entry' = [entry EXCEPT ![day] = f]
        /\ proc' = [proc EXCEPT ![p] = [pc |-> "runs", file |-> f, date |-> day, size |-> 0]]

\* A process starts: Logger::Init.  When it cannot open a file it ends.
LoggerInit(p) ==
    /\ proc[p].pc = "down"
    /\ p = Server \/ lines[p] = 0
    /\ CreateNewLogFile(p)
    /\ UNCHANGED <<day, archives, lines, faults>>

\* Mutant: the file may exceed its size.
Full_Beyond(size) == size > MaxSize

\* The condition on which Log rotates.
Full(size) == size >= MaxSize

\* A line of n bytes is written to the file, or nowhere when there is none.
\* The size is compared after that.
Log(p, n) ==
    /\ proc[p].pc = "runs"
    /\ lines[p] < IF p = Server THEN MaxLines ELSE ToolLines
    /\ lines' = [lines EXCEPT ![p] = @ + 1]
    /\ LET f == proc[p].file
           size == proc[p].size + n
       IN  IF f = 0
           THEN UNCHANGED <<files, bytes, proc>>
           ELSE /\ files' = [files EXCEPT ![f] = @ \cup {<<p, lines[p] + 1>>}]
                /\ bytes' = IF p = Server THEN [bytes EXCEPT ![f] = @ + n] ELSE bytes
                /\ proc' = [proc EXCEPT ![p].size = size,
                                        ![p].pc = IF Full(size) THEN "full" ELSE "runs"]
    /\ UNCHANGED <<day, entry, archives, opens, faults>>
-----------------------------------------------------------------------------
(***************************************************************************)
(* RotateLogFile: the file is closed, a shell runs `tar ... && rm -f ...'  *)
(* on the name of the file, and a file is opened again.                    *)
(***************************************************************************)

\* Mutant: the first name of the day is taken, whether it exists or not.
Archived_Overwrite(date, archive) == <<archive>>

\* The archive gets the first name of the day that does not exist.
Archived(date, archive) == Append(archives[date], archive)

\* tar reads what the entry names at that time.
Tar(p) ==
    /\ proc[p].pc = "full"
    /\ LET d == proc[p].date
       IN  archives' = [archives EXCEPT ![d] =
                           Archived(d, [lines |-> files[entry[d]], whole |-> TRUE])]
    /\ proc' = [proc EXCEPT ![p].pc = "archived", ![p].file = 0]
    /\ UNCHANGED <<day, entry, files, lines, opens, bytes, faults>>

\* An archive that tar has begun, or none.
Torn(p) ==
    LET d == proc[p].date
    IN  \/ archives' = [archives EXCEPT ![d] = Archived(d, [lines |-> {}, whole |-> FALSE])]
        \/ UNCHANGED archives

\* Mutant: the file is removed whether tar has succeeded or not.
TarFails_Anyway(p) ==
    /\ Fault /\ proc[p].pc = "full"
    /\ Torn(p)
    /\ proc' = [proc EXCEPT ![p].pc = "archived", ![p].file = 0]
    /\ UNCHANGED <<day, entry, files, lines, opens, bytes>>

\* tar fails: the file stays as it is.
TarFails(p) ==
    /\ Fault /\ proc[p].pc = "full"
    /\ Torn(p)
    /\ proc' = [proc EXCEPT ![p].pc = "closed", ![p].file = 0]
    /\ UNCHANGED <<day, entry, files, lines, opens, bytes>>

Remove(p) ==
    /\ proc[p].pc = "archived"
    /\ entry' = [entry EXCEPT ![proc[p].date] = 0]
    /\ proc' = [proc EXCEPT ![p].pc = "closed"]
    /\ UNCHANGED <<day, files, archives, lines, opens, bytes, faults>>

Reopen(p) ==
    /\ proc[p].pc = "closed"
    /\ CreateNewLogFile(p)
    /\ UNCHANGED <<day, archives, lines, faults>>

\* fopen fails: from now on lines are dropped, and nothing tries again.
ReopenFails(p) ==
    /\ Fault /\ proc[p].pc = "closed"
    /\ proc' = [proc EXCEPT ![p].pc = "runs", ![p].date = day]
    /\ UNCHANGED <<day, entry, files, archives, lines, opens, bytes>>

\* The process is killed, and the shell it waits for with it; or it exits.
Kill(p) ==
    /\ Fault /\ proc[p].pc # "down"
    /\ IF proc[p].pc = "full" THEN Torn(p) ELSE UNCHANGED archives
    /\ proc' = [proc EXCEPT ![p] = Down]
    /\ UNCHANGED <<day, entry, files, lines, opens, bytes>>

Next ==
    \/ Midnight
    \/ \E p \in Procs :
          \/ LoggerInit(p)
          \/ \E n \in 1..MaxLine : Log(p, n)
          \/ Tar(p) \/ TarFails(p) \/ Remove(p) \/ Reopen(p) \/ ReopenFails(p)
          \/ Kill(p)

Spec == Init /\ [][Next]_vars
-----------------------------------------------------------------------------
\* The most the server writes to a file from one opening to the next
\* rotation: the line that fills the file is written whole.
PerOpening == MaxSize - 1 + MaxLine

Lines == {<<p, k>> : p \in Procs, k \in 1..(MaxLines + ToolLines)}

\* Type invariant; a process that rotates finds the entry of its file.
TypeOK ==
    /\ day \in Days
    /\ entry \in [Days -> 0..Len(files)]
    /\ files \in Seq(SUBSET Lines)
    /\ opens \in [1..Len(files) -> Nat] /\ bytes \in [1..Len(files) -> Nat]
    /\ archives \in [Days -> Seq([lines : SUBSET Lines, whole : BOOLEAN])]
    /\ \A p \in Procs :
          /\ proc[p].pc \in {"down", "runs", "full", "archived", "closed"}
          /\ proc[p].file \in 0..Len(files) /\ proc[p].size \in 0..PerOpening
          /\ proc[p].pc \in {"full", "archived"} => entry[proc[p].date] # 0
    /\ lines \in [Procs -> 0..(MaxLines + ToolLines)]
    /\ faults \in 0..MaxFaults

\* No line of the server that has reached a file is lost, whichever way a
\* rotation ends and wherever the process is killed.  (A tool has no such
\* promise: the server may rotate the file a tool has open.)
ServerLinesSurvive ==
    \A f \in DOMAIN files : \A l \in files[f] :
        l[1] = Server =>
            \/ \E d \in Days : entry[d] = f
            \/ \E d \in Days : \E k \in DOMAIN archives[d] :
                  archives[d][k].whole /\ l \in archives[d][k].lines

\* An archive is not overwritten, by a later rotation, life or day.
ArchivesStay ==
    [][\A d \in Days : \A k \in DOMAIN archives[d] :
          k \in DOMAIN archives'[d] /\ archives'[d][k] = archives[d][k]]_vars

\* What the server adds to a file between two openings exceeds max_file_size
\* by less than a line.  The file as a whole is bounded by its openings only:
\* an opening appends and counts from 0 again, so restarts and failures of
\* tar let it grow further.
RotatedInTime ==
    \A f \in DOMAIN files : bytes[f] <= PerOpening * opens[f]

\* A rotation never works on an entry that another has removed, and the files
\* of the server are bounded between two openings.
FilesInv == TypeOK /\ RotatedInTime
=============================================================================
