------------------------------ MODULE LogFiles ------------------------------
(***************************************************************************)
(* The log files of one process and the Control worker that tidies them.   *)
(*                                                                         *)
(* write_log keeps one open file per level.  A file that is full, or of    *)
(* another day, is closed and the next sequence number is taken, modulo    *)
(* max_log_files; the file of an earlier day with that number is removed.  *)
(* A level that has used up its numbers within a day turns this recycling  *)
(* off, for all levels, until the next day.  After a restart log_init      *)
(* finds the sequence numbers again from the names in the directory.       *)
(*                                                                         *)
(* Meanwhile Control, at three in the morning, removes what is dated too   *)
(* far back and packs what is old into one archive per date.  Both work on *)
(* the same directory and neither waits for the other.                     *)
(***************************************************************************)
EXTENDS Integers, FiniteSets, Functions, TLC

CONSTANTS Levels,     \* log levels that are written
          MaxFiles,   \* log_maxfiles, 0 for no recycling (config_max_log_files)
          LogSize,    \* log_size, in lines
          LogArchiveDays, LogRemoveDays,  \* log_archive_days and log_remove_days
          MaxSortDay, \* MAX_SORT_DAY: dates packed in one pass (60)
          NoFile,
          MaxDay,     \* bound: days
          MaxLines,   \* bound: lines written
          MaxRestarts, MaxFaults  \* bounds: restarts, calls and commands that fail

ASSUME LogFilesAssumption ==
  /\ MaxFiles \in Nat /\ LogSize \in Nat \ {0} /\ MaxSortDay \in Nat \ {0}
  /\ LogArchiveDays \in Int /\ LogRemoveDays \in Int
  /\ MaxDay \in Nat /\ MaxLines \in Nat /\ MaxRestarts \in Nat /\ MaxFaults \in Nat
  /\ NoFile \notin [level : Levels, date : Int, seq : Int]

VARIABLES
  log,     \* the process: [fds, max], and dir, the files in the log directory
  today, hour,  \* the clock: a date, before, at or after three
  pass,    \* Control: where it is in Process(), and the date it packs next
  tar,     \* LogProcessor.m_tar_files: the files to pack, by date
  archives,  \* <date>.tar.gz: the lines in it, by date
  owed,    \* history: lines written on a date and not recycled
  partly, repacked,  \* history: dates of which tar has packed a part, and then again
  lines, restarts, faults,
  disturbed  \* history: recycling was off, failed, or started over

packings == <<partly, repacked>>
vars == <<log, today, hour, pass, tar, archives, owed, packings, lines, restarts, faults,
          disturbed>>

Dates == 0 .. MaxDay
Hours == <<"before", "three", "after">>
Fault == faults < MaxFaults /\ faults' = faults + 1

\* Control::Init: archive_days <= remove_days, both within limits.
Within(n, lo, hi) == IF n < lo THEN lo ELSE IF n > hi THEN hi ELSE n
ArchiveDays == Within(LogArchiveDays, 1, 28)
RemoveDays == IF LogRemoveDays > 168 THEN Within(168, ArchiveDays, 168)
              ELSE Within(LogRemoveDays, ArchiveDays, 168)

\* log_file_name: a level, a date and a sequence number.
Name(l, date, seq) == [level |-> l, date |-> date, seq |-> seq]
FilesOf(dir, l) == {n \in DOMAIN dir : n.level = l}
Later(m, n) == m.date > n.date \/ (m.date = n.date /\ m.seq > n.seq)

-----------------------------------------------------------------------------
(* The process that writes. *)

\* get_log_seq_recycle: the greatest name says where to go on.
LogSeqRecycle(dir, l) ==
  LET old == FilesOf(dir, l)
      greatest == CHOOSE n \in old : \A k \in old : ~Later(k, n)
  IN IF old = {} THEN 0
     ELSE (IF greatest.date = today THEN greatest.seq ELSE greatest.seq + 1) % MaxFiles

\* get_log_seq_nonrecycle: the last of today's files in the row from 0.
LogSeqNonrecycle(dir, l) ==
  LET free == CHOOSE k \in 0 .. Cardinality(FilesOf(dir, l)) :
                /\ Name(l, today, k) \notin DOMAIN dir
                /\ \A j \in 0 .. k - 1 : Name(l, today, j) \in DOMAIN dir
  IN IF free = 0 THEN 0 ELSE free - 1

RequestLogSeq(dir, l) ==
  IF MaxFiles # 0 THEN LogSeqRecycle(dir, l) ELSE LogSeqNonrecycle(dir, l)

\* log_init, over a directory as the process before left it.
LogInit(dir) ==
  [fds |-> [l \in Levels |-> [seq |-> RequestLogSeq(dir, l), file |-> NoFile,
                              day |-> -1, count |-> 0]],
   max |-> MaxFiles,
   dir |-> dir]

\* A directory, or a map by date, without some entries and with one more or another.
Remove(dir, names) == Restrict(dir, DOMAIN dir \ names)
With(f, x, v) == [y \in DOMAIN f \cup {x} |-> IF y = x THEN v ELSE f[y]]

\* Mutant: the file just opened is removed like those of earlier days.
RmFilesBySeqnoAll(s, l, seq) ==
  LET old == {n \in FilesOf(s.dir, l) : n.seq = seq}
  IN IF old = {} THEN {s} ELSE {[s EXCEPT !.dir = Remove(@, {n})] : n \in old}

\* rm_files_by_seqno: the first file readdir gives that has the number, not today's.
RmFilesBySeqno(s, l, seq) ==
  LET old == {n \in FilesOf(s.dir, l) : n.seq = seq /\ n.date # today}
  IN IF old = {} THEN {s} ELSE {[s EXCEPT !.dir = Remove(@, {n})] : n \in old}

\* open_fd, the outcomes: what fails is nothing, open itself, or opendir in
\* rm_files_by_seqno, in which case nothing is removed.
Failures == {"none", "open", "opendir"}
OpenFd(s, l, fails) ==
  LET f == s.fds[l]
      name == Name(l, today, f.seq)
      newDay == f.day # today
      count == IF newDay THEN 1 ELSE f.count + 1
      max == IF newDay THEN MaxFiles ELSE s.max
      usedUp == max # 0 /\ count > max
      opened == [
        fds |-> [s.fds EXCEPT ![l] = [seq |-> IF usedUp THEN max ELSE f.seq, file |-> name,
                                      day |-> today, count |-> count]],
        max |-> IF usedUp THEN 0 ELSE max,
        dir |-> IF name \in DOMAIN s.dir THEN s.dir ELSE With(s.dir, name, 0)]
  IN IF fails = "open" THEN {[s EXCEPT !.fds[l].file = NoFile]}
     ELSE IF opened.max = 0 \/ fails = "opendir" THEN {opened}
     ELSE RmFilesBySeqno(opened, l, f.seq)

\* Mutant: numbers go on counting, as without recycling.
NextSeqOn(s, l) == IF s.fds[l].day # today THEN s.fds[l].seq + 1 ELSE (s.fds[l].seq + 1) % MaxFiles

\* Mutant: a day begins with number 0, as without recycling.
NextSeqZero(s, l) ==
  IF s.fds[l].day # today THEN 0
  ELSE IF s.max # 0 THEN (s.fds[l].seq + 1) % s.max
  ELSE s.fds[l].seq + 1

\* The number after that of a file which is full or of another day.
NextSeq(s, l) ==
  IF s.max # 0 THEN (s.fds[l].seq + 1) % s.max
  ELSE IF s.fds[l].day # today THEN 0
  ELSE s.fds[l].seq + 1

Fits(s, l) ==
  LET f == s.fds[l]
  IN f.day = today /\ (f.file \in DOMAIN s.dir => s.dir[f.file] < LogSize)

\* shift_fd: it opens a file when none is open, and another when that does not do;
\* whether the other one is full is not looked at before the next line.  fails says
\* what fails in the one and in the other.
ShiftFd(s, l, fails) ==
  LET Shifted(t) ==
        IF t.fds[l].file = NoFile \/ Fits(t, l) THEN {t}
        ELSE OpenFd([t EXCEPT !.fds[l].seq = NextSeq(t, l)], l, fails[2])
  IN IF s.fds[l].file = NoFile THEN UNION {Shifted(t) : t \in OpenFd(s, l, fails[1])}
     ELSE Shifted(s)

Init ==
  /\ today = 0 /\ hour = "before"
  /\ log = LogInit(<<>>)
  /\ pass = [at |-> "idle", date |-> 0, count |-> 0]
  /\ tar = <<>> /\ archives = <<>>
  /\ owed = [d \in Dates |-> 0]
  /\ partly = {} /\ repacked = {}
  /\ lines = 0 /\ restarts = 0 /\ faults = 0 /\ disturbed = FALSE

\* write_log.  A line that has no file to go to is dropped.
WriteLog(l) ==
  /\ lines < MaxLines
  /\ lines' = lines + 1
  /\ \E fails \in Failures \X Failures :
       /\ IF fails = <<"none", "none">> THEN UNCHANGED faults ELSE Fault
       /\ \E s \in ShiftFd(log, l, fails) :
            LET file == s.fds[l].file
                recycled == DOMAIN log.dir \ DOMAIN s.dir
            IN /\ log' = IF file \in DOMAIN s.dir THEN [s EXCEPT !.dir[file] = @ + 1] ELSE s
               /\ owed' = [d \in Dates |->
                    owed[d] + (IF d = today /\ file # NoFile THEN 1 ELSE 0)
                      - SumFunctionOnSet(log.dir, {n \in recycled : n.date = d})]
               /\ disturbed' = (disturbed \/ "opendir" \in {fails[1], fails[2]}
                                              \/ s.max # MaxFiles)
  /\ UNCHANGED <<today, hour, pass, tar, archives, packings, restarts>>

\* The process is killed and forked again: log_fini, log_init.
Restart ==
  /\ restarts < MaxRestarts
  /\ restarts' = restarts + 1
  /\ log' = LogInit(log.dir)
  /\ disturbed' = TRUE
  /\ UNCHANGED <<today, hour, pass, tar, archives, owed, packings, lines, faults>>

-----------------------------------------------------------------------------
(* Control. *)

\* Time goes on, whatever Control has got round to: the second at which TimeEvent
\* would call Process() may pass without it, and see it called more than once.  A pass
\* that begins at three is over by midnight.
Tick ==
  /\ \/ hour = "before" /\ hour' = "three" /\ UNCHANGED today
     \/ hour = "three" /\ hour' = "after" /\ UNCHANGED today
     \/ /\ hour = "after" /\ hour' = "before"
        /\ today < MaxDay /\ today' = today + 1
        /\ pass.at = "idle"
  /\ UNCHANGED <<log, pass, tar, archives, owed, packings, lines, restarts, faults, disturbed>>

\* GetDayDistance, to today.
Age(date) == today - date

\* TidyLogPath, at three: Process() begins with DoRemove.
DoRemove ==
  /\ hour = "three" /\ pass.at = "idle"
  /\ \/ /\ log' = [log EXCEPT !.dir = Remove(@, {n \in DOMAIN @ : Age(n.date) > RemoveDays})]
        /\ archives' = Remove(archives, {d \in DOMAIN archives : Age(d) > RemoveDays})
        /\ UNCHANGED faults
     \/ Fault /\ UNCHANGED <<log, archives>>
  /\ pass' = [pass EXCEPT !.at = "sort"]
  /\ UNCHANGED <<today, hour, tar, owed, packings, lines, restarts, disturbed>>

\* FileLister: the regular files readdir gives, one after the other.
Listed == DOMAIN log.dir

\* SortFilesToMap adds to what an earlier pass has left.
SortFilesToMap ==
  /\ pass.at = "sort"
  /\ \/ /\ LET old == {n \in Listed :
                         Age(n.date) > ArchiveDays /\ Age(n.date) < RemoveDays + 1}
               left(d) == IF d \in DOMAIN tar THEN tar[d] ELSE {}
           IN tar' = [d \in DOMAIN tar \cup {n.date : n \in old} |->
                        left(d) \cup {n \in old : n.date = d}]
        /\ UNCHANGED faults
     \/ Fault /\ UNCHANGED tar
  /\ pass' = [at |-> "tar", date |-> 0, count |-> 0]
  /\ UNCHANGED <<log, today, hour, archives, owed, packings, lines, restarts, disturbed>>

Waiting == {d \in DOMAIN tar : d >= pass.date}

\* TarMapFiles, one date: .tmp cannot be written and the date is left for the next
\* pass; or tar packs what .tmp lists and is there, and removes what it has packed.
\* A write cut short counts as done and tar's result is not looked at: that may be a
\* part of the files, or none.  Either way the archive of the date is made anew.
TarDate(d) ==
  /\ pass.at = "tar" /\ pass.count < MaxSortDay
  /\ d \in Waiting /\ \A e \in Waiting : d <= e
  /\ pass' = [pass EXCEPT !.date = d + 1, !.count = @ + 1]
  /\ \/ Fault /\ UNCHANGED <<log, tar, archives, packings>>
     \/ LET there == tar[d] \cap DOMAIN log.dir
        IN \E packed \in SUBSET there :
             /\ archives' = With(archives, d, SumFunctionOnSet(log.dir, packed))
             /\ log' = [log EXCEPT !.dir = Remove(@, packed)]
             /\ tar' = Remove(tar, {d})
             /\ IF packed = there THEN UNCHANGED faults ELSE Fault
             /\ partly' = IF packed \in {{}, there} THEN partly ELSE partly \cup {d}
             /\ repacked' = repacked \cup ({d} \cap partly)
  /\ UNCHANGED <<today, hour, owed, lines, restarts, disturbed>>

TarEnds ==
  /\ pass.at = "tar" /\ (pass.count = MaxSortDay \/ Waiting = {})
  /\ pass' = [pass EXCEPT !.at = "idle"]
  /\ UNCHANGED <<log, today, hour, tar, archives, owed, packings, lines, restarts, faults,
                 disturbed>>

\* Control is killed and forked again; a tar it has started runs to its end.
ControlRestart ==
  /\ restarts < MaxRestarts
  /\ restarts' = restarts + 1
  /\ pass' = [pass EXCEPT !.at = "idle"] /\ tar' = <<>>
  /\ UNCHANGED <<log, today, hour, archives, owed, packings, lines, faults, disturbed>>

Next ==
  \/ \E l \in Levels : WriteLog(l)
  \/ Restart \/ Tick
  \/ DoRemove \/ SortFilesToMap \/ (\E d \in Dates : TarDate(d)) \/ TarEnds
  \/ ControlRestart

Spec == Init /\ [][Next]_vars

-----------------------------------------------------------------------------
(* Properties. *)

\* Files have names of the form log_file_name gives them, and Control keeps its place.
TypeOK ==
  /\ \A n \in DOMAIN log.dir : n.level \in Levels /\ n.date \in 0 .. today /\ n.seq \in Nat
  /\ \A l \in Levels : log.fds[l].file = NoFile \/ log.fds[l].file.level = l
  /\ log.max \in {0, MaxFiles}
  /\ pass.at \in {"idle", "sort", "tar"} /\ DOMAIN tar \subseteq Dates
  /\ partly \subseteq Dates /\ repacked \subseteq partly

LinesOf(d) ==
  SumFunctionOnSet(log.dir, {n \in DOMAIN log.dir : n.date = d})
    + IF d \in DOMAIN archives THEN archives[d] ELSE 0

\* Every line that was written to a file and not recycled by the next round of
\* sequence numbers can be found for log_remove_days, in a file of the date it was
\* written or in the archive of that date: a file is not removed while it is written
\* to, and an archive not made anew while it holds what is nowhere else, whoever is
\* restarted in the middle of a pass and when tar packs nothing.  When it packs only
\* a part of a date the lines are all there until the date is packed again: the archive
\* of the first part is then lost.  (And every variable keeps to its range.)
LinesKept ==
  TypeOK /\ \A d \in (0 .. today) \ repacked : Age(d) <= RemoveDays => LinesOf(d) = owed[d]

\* maxfiles limits the files of every level, as log.h says, for as long as no level
\* writes more in a day, nobody starts the numbers over and every removal succeeds:
\* files of different days never share a sequence number.
FilesBounded ==
  ~disturbed /\ MaxFiles # 0 => \A l \in Levels : Cardinality(FilesOf(log.dir, l)) <= MaxFiles

\* A line written removes a file only when all the numbers of its level are taken,
\* and then one of the earliest date there is, as long as nothing fails: neither a
\* quiet day nor what Control has packed makes the numbers come round too soon.
OldestRecycled ==
  [][\A n \in DOMAIN log.dir \ DOMAIN log'.dir :
       lines' # lines /\ ~disturbed' /\ faults' = 0 =>
         /\ Cardinality(FilesOf(log.dir, n.level)) = MaxFiles
         /\ \A k \in FilesOf(log.dir, n.level) : n.date <= k.date]_vars
=============================================================================
