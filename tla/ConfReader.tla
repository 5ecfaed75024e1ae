------------------------------ MODULE ConfReader ------------------------------
(***************************************************************************)
(* configuredPort (internal/engine/engine.go): which port a data folder's  *)
(* configuration files set. The reader walks postgresql.conf, the files it *)
(* includes and postgresql.auto.conf, and the last port line it meets wins *)
(* until a later one replaces it. The Go calls read, apply and readDir     *)
(* recurse; here `work` is their stack, one frame for each file still to   *)
(* be read or being read.                                                  *)
(***************************************************************************)
EXTENDS Integers, Sequences, FiniteSets

CONSTANTS
  File,            \* files of the data folder; "conf" and "auto" among them
  Folder,          \* include_dir folders: a function to their *.conf, by name
  Disks,           \* contents: functions from File to lines, or Missing
  Missing,
  MaxIncludeDepth  \* maxIncludeDepth

\* A line is its setting's name and its value. parseConfLine's errors are the
\* name "syntaxError".
Words == {"port", "include", "includeIfExists", "includeDir", "other", "syntaxError"}

Includes == {"include", "includeIfExists"}

ASSUME FilesAssumption ==
  /\ {"conf", "auto"} \subseteq File
  /\ \A folder \in DOMAIN Folder : Folder[folder] \in Seq(File)
ASSUME DisksAssumption ==
  \A d \in Disks :
    /\ DOMAIN d = File
    /\ \A f \in File : d[f] # Missing =>
         /\ Len(d[f]) \in Nat /\ DOMAIN d[f] = 1..Len(d[f])
         /\ \A i \in 1..Len(d[f]) :
              d[f][i].word \in Words /\ (d[f][i].word \in Includes => d[f][i].value \in File)
ASSUME DepthAssumption == MaxIncludeDepth \in Nat

VARIABLES
  disk,     \* what the files hold
  work,     \* the calls of read still on the stack, innermost first
  port,     \* confReader.port
  source,   \* confReader.file, or "default"
  verdict   \* reading, refused with an error, or read to the end

vars == <<disk, work, port, source, verdict>>

defaultPort == 5432
Ports == 1..65535

Frame == [file : File, line : Nat, depth : 0..(MaxIncludeDepth + 1), ifExists : {"no", "yes"}]

TypeOK ==
  /\ DOMAIN disk = File
  /\ \A f \in File : disk[f] # Missing => \A i \in 1..Len(disk[f]) : disk[f][i].word \in Words
  /\ work \in Seq(Frame)
  /\ \A i \in 1..Len(work) : work[i].line > 0 => work[i].depth <= MaxIncludeDepth
  /\ port \in Ports /\ source \in File \cup {"default"}
  /\ verdict \in {"reading", "refused", "read"}

Unread(file, depth, ifExists) ==
  [file |-> file, line |-> 0, depth |-> depth, ifExists |-> ifExists]

Init ==
  /\ disk \in Disks
  /\ work = <<Unread("conf", 0, "no"), Unread("auto", 0, "yes")>>
  /\ port = defaultPort /\ source = "default" /\ verdict = "reading"

-----------------------------------------------------------------------------

Top == work[1]
Return == work' = Tail(work) /\ UNCHANGED verdict
Refuse == verdict' = "refused" /\ UNCHANGED work
Reading == verdict = "reading" /\ work # <<>>

\* mutant: nothing counts the nesting
OpenUnlimited ==
  /\ Reading /\ Top.line = 0
  /\ IF disk[Top.file] = Missing
       THEN IF Top.ifExists = "yes" THEN Return ELSE Refuse
       ELSE work' = <<[Top EXCEPT !.line = 1]>> \o Tail(work) /\ UNCHANGED verdict
  /\ UNCHANGED <<disk, port, source>>

\* read and readIfExists: a missing optional file is skipped before its depth counts.
Open ==
  /\ Reading /\ Top.line = 0
  /\ CASE disk[Top.file] = Missing /\ Top.ifExists = "yes" -> Return
       [] disk[Top.file] = Missing /\ Top.ifExists = "no" -> Refuse
       [] disk[Top.file] # Missing /\ Top.depth > MaxIncludeDepth -> Refuse
       [] OTHER -> work' = <<[Top EXCEPT !.line = 1]>> \o Tail(work) /\ UNCHANGED verdict
  /\ UNCHANGED <<disk, port, source>>

AtLine == Reading /\ Top.line > 0 /\ Top.line <= Len(disk[Top.file])
Line == disk[Top.file][Top.line]
Advanced == <<[Top EXCEPT !.line = @ + 1]>> \o Tail(work)

\* apply, case port
SetPort ==
  /\ AtLine /\ Line.word = "port"
  /\ IF Line.value \in Ports
       THEN /\ port' = Line.value /\ source' = Top.file
            /\ work' = Advanced /\ UNCHANGED verdict
       ELSE Refuse /\ UNCHANGED <<port, source>>
  /\ UNCHANGED disk

\* The files an include line names, in the order they are read
Included(line) ==
  CASE line.word \in Includes -> <<line.value>>
    [] line.word = "includeDir" /\ line.value \in DOMAIN Folder -> Folder[line.value]
    [] OTHER -> <<>>

Optional(line) == IF line.word = "includeIfExists" THEN "yes" ELSE "no"

Calls(line, depth) ==
  [k \in 1..Len(Included(line)) |-> Unread(Included(line)[k], depth, Optional(line))]

NoFolder(line) == line.word = "includeDir" /\ line.value \notin DOMAIN Folder

\* mutant: included files are read after the file that names them
IncludeLater ==
  /\ AtLine /\ Line.word \in Includes \cup {"includeDir"}
  /\ IF NoFolder(Line) THEN Refuse
       ELSE work' = <<Advanced[1]>> \o Calls(Line, Top.depth + 1) \o Tail(work) /\ UNCHANGED verdict
  /\ UNCHANGED <<disk, port, source>>

\* mutant: the including file does not go on behind its include line
IncludeForever ==
  /\ AtLine /\ Line.word \in Includes \cup {"includeDir"}
  /\ IF NoFolder(Line) THEN Refuse
       ELSE work' = Calls(Line, Top.depth + 1) \o work /\ UNCHANGED verdict
  /\ UNCHANGED <<disk, port, source>>

\* apply and readDir: what is included is read before the next line.
Include ==
  /\ AtLine /\ Line.word \in Includes \cup {"includeDir"}
  /\ IF NoFolder(Line) THEN Refuse
       ELSE work' = Calls(Line, Top.depth + 1) \o Advanced /\ UNCHANGED verdict
  /\ UNCHANGED <<disk, port, source>>

PassOver ==
  /\ AtLine /\ Line.word \in {"other", "syntaxError"}
  /\ IF Line.word = "other" THEN work' = Advanced /\ UNCHANGED verdict ELSE Refuse
  /\ UNCHANGED <<disk, port, source>>

EndOfFile ==
  /\ Reading /\ Top.line > 0 /\ Top.line > Len(disk[Top.file])
  /\ Return
  /\ UNCHANGED <<disk, port, source>>

Finish ==
  /\ verdict = "reading" /\ work = <<>>
  /\ verdict' = "read"
  /\ UNCHANGED <<disk, work, port, source>>

Next == Open \/ SetPort \/ Include \/ PassOver \/ EndOfFile \/ Finish

Spec == Init /\ [][Next]_vars
FairSpec == Spec /\ WF_vars(Next)

-----------------------------------------------------------------------------
(* What PostgreSQL would make of the same files, without a stack: every place *)
(* an include can lead to, each under the trail of line numbers that leads    *)
(* there, and the trails in lexicographic order.                              *)

Exists(place) == disk[place.file] # Missing

Roots == {[trail |-> <<1>>, file |-> "conf", ifExists |-> "no"],
          [trail |-> <<2>>, file |-> "auto", ifExists |-> "yes"]}

Lines(place) == IF Exists(place) THEN 1..Len(disk[place.file]) ELSE {}

\* What line i of a place includes.
Below(place, i) ==
  {[trail |-> place.trail \o <<i, k>>, file |-> Included(disk[place.file][i])[k],
    ifExists |-> Optional(disk[place.file][i])] : k \in 1..Len(Included(disk[place.file][i]))}

Places[depth \in 0..(MaxIncludeDepth + 1)] ==
  IF depth = 0 THEN Roots
  ELSE UNION {UNION {Below(place, i) : i \in Lines(place)} : place \in Places[depth - 1]}

PortLine(place, i) ==
  [trail |-> place.trail \o <<i>>, port |-> disk[place.file][i].value, file |-> place.file]
PortLines ==
  UNION {UNION {{PortLine(place, i) : i \in {j \in Lines(place) : disk[place.file][j].word = "port"}} :
                place \in Places[depth]} :
         depth \in DOMAIN Places}

Before(s, t) ==
  \E k \in 1..Len(s) : k <= Len(t) /\ s[k] < t[k] /\ \A j \in 1..(k - 1) : s[j] = t[j]

\* Of several port lines PostgreSQL keeps the last and ignores the others, whatever they say.
PostgresPorts == 1..65535
IsLast(line) == \A other \in PortLines \ {line} : Before(other.trail, line.trail)
Wrong(line) == line.word = "syntaxError" \/ NoFolder(line)

Broken ==
  \/ \E depth \in DOMAIN Places : \E place \in Places[depth] :
       \/ ~Exists(place) /\ place.ifExists = "no"
       \/ \E i \in Lines(place) : Wrong(disk[place.file][i])
  \/ \E line \in PortLines : IsLast(line) /\ line.port \notin PostgresPorts

\* PostgreSQL does not start on these files. It counts the nesting of a file before it
\* looks whether the file exists.
TooDeep == Places[MaxIncludeDepth + 1]
Unusable == Broken \/ TooDeep # {}

\* The reader and PostgreSQL agree on the port and the file that sets it, or the default,
\* wherever the reader answers, and it answers for no broken files (configuredPort's
\* comment; installer.md, the port row). They differ in two cases: the reader refuses a port
\* line out of range that a later line overrides, and passes over an optional file that
\* does not exist where PostgreSQL finds it nested too deep.
ReadsWhatPostgresReads ==
  /\ verdict = "refused" => Unusable \/ \E line \in PortLines : line.port \notin PostgresPorts
  /\ verdict = "read" =>
       /\ ~Broken /\ \A place \in TooDeep : ~Exists(place)
       /\ IF PortLines = {} THEN <<port, source>> = <<defaultPort, "default">>
          ELSE \E line \in PortLines : IsLast(line) /\ <<port, source>> = <<line.port, line.file>>

\* The last active port line is the port: the reader refuses no files PostgreSQL starts on
\* (configuredPort's comment, engine_test.go's "the last setting wins"). apply does not do
\* so: it refuses the first port line out of range.
LastSettingWins == verdict = "refused" => Unusable

\* Files that include themselves, or each other, are read or refused in the end
\* (maxIncludeDepth).
ReadingEnds == <>(verdict # "reading")
=============================================================================
