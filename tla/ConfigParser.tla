---------------------------- MODULE ConfigParser ----------------------------
(***************************************************************************)
(* read_config_file (functions.c): how lines of ./sup/file.cfg such as     *)
(*     [read_interval] = 1                                                 *)
(* become the fields of a config_file_t, in main at the start and in the   *)
(* configuration process at each reload.  The lines are fetched into a     *)
(* buffer of 20 bytes, split at "=" with strtok, and the names searched    *)
(* with strstr.  So what a line does depends on what of it fits into the   *)
(* first Chunk characters: the name, the "=", the number.  The rest of the *)
(* line is fetched next, and names no field any more.                      *)
(*                                                                         *)
(* A line is its layout: blanks before the name, whether there is a "=",   *)
(* blanks after it, the digits of the number.  Each process has a struct   *)
(* of its own, allocated uninitialised and never cleared.                  *)
(***************************************************************************)
EXTENDS Integers, Sequences

CONSTANTS
  Contents,   (* contents of the file: a set of sequences of lines         *)
  MaxLines    (* bound of the model: lines a process reads                 *)

Keys == {"backlog", "max_conn", "read_interval", "samples"}

(* "text" is a line that names no field.                                   *)
Line == [key : Keys \cup {"text"}, indent : 0..6, equal : BOOLEAN,
         gap : 0..2, digits : Seq(0..9)]

ASSUME ContentsAssumption == Contents \subseteq Seq(Line)
ASSUME MaxLinesAssumption == MaxLines \in Nat

VARIABLES
  reader,    (* the process that parses: "main", then "config"             *)
  pc,        (* where it is                                                *)
  left,      (* the lines of the open file it has not read                 *)
  fields,    (* its config_file_t                                          *)
  settings,  (* the four fields of main's context, copied from them        *)
  seen,      (* the lines it has parsed so far, in all reads (history)     *)
  opened     (* how many of them are from earlier reads (history)          *)

parserVars == <<reader, pc, left, fields, settings, seen, opened>>

(* An uninitialised field: any number, which no file need have named.      *)
Garbage == -1

(* "Set default values" (webserver.c 243).                                 *)
Defaults ==
  [backlog |-> 2, max_conn |-> 1000, read_interval |-> 1, samples |-> 5]

-----------------------------------------------------------------------------
(* Defect: fgets is given one byte less than the buffer has.               *)
ChunkOf18 == 18

(* sizeof(buffer) - 1                                                      *)
Chunk == 19

NameLength(key) ==
  CASE key \in {"backlog", "samples"} -> 7
    [] key = "max_conn" -> 8
    [] key = "read_interval" -> 13

(* strtol of the first i digits, for each i.  Chunk leaves seven at most:   *)
(* no overflow.                                                            *)
Numbers(digits) ==
  LET n[i \in 0..Len(digits)] ==
        IF i = 0 THEN 0 ELSE 10 * n[i - 1] + digits[i]
  IN  n

Number(digits) == Numbers(digits)[Len(digits)]

(* Position of the "=" in "[name] =", and of the end of the name.          *)
EqualAt(l) == l.indent + NameLength(l.key) + 4
NameEnd(l) == l.indent + NameLength(l.key) + 1

(* strstr finds the name in the chunk.                                     *)
Named(l) == l.key \in Keys /\ NameEnd(l) <= Chunk

(* Defect: strtok looks at the first fifteen characters.                   *)
HasValueIn15(l) == l.equal /\ EqualAt(l) < 15

(* strtok finds a "=" and something after it, the newline at least.        *)
HasValue(l) == l.equal /\ EqualAt(l) < Chunk

(* strtol(token + 1): the first character after the "=" is skipped, blank  *)
(* or not, and the chunk may end before the number does.                   *)
Value(l) ==
  LET room == Chunk - EqualAt(l) - l.gap
      first == IF l.gap = 0 THEN 2 ELSE 1
      last == IF room < Len(l.digits) THEN room ELSE Len(l.digits)
  IN  Number(SubSeq(l.digits, first, last))

-----------------------------------------------------------------------------
ParserInit ==
  /\ reader = "main"
  /\ pc = "open"
  /\ left = <<>>
  /\ fields = [k \in Keys |-> Garbage]
  /\ settings = Defaults
  /\ seen = <<>>
  /\ opened = 0

(* Somebody may have edited the file.  It is fetched whole, into the       *)
(* buffer of the stream.                                                   *)
Open ==
  /\ pc = "open"
  /\ \E content \in Contents :
       /\ Len(seen) + Len(content) <= MaxLines
       /\ left' = content
  /\ opened' = Len(seen)
  /\ pc' = "lines"
  /\ UNCHANGED <<reader, fields, settings, seen>>

(* fopen fails: exit(EXIT_FAILURE), in whichever process.                  *)
OpenFails ==
  /\ pc = "open"
  /\ pc' = "exited"
  /\ UNCHANGED <<reader, left, fields, settings, seen, opened>>

(* Defect: the branch of max_conn was copied with the field of samples.    *)
ParseLineWrongField ==
  LET l == Head(left) IN
  /\ pc = "lines"
  /\ left # <<>>
  /\ Named(l) => HasValue(l)
  /\ fields' = IF Named(l)
                 THEN [fields EXCEPT ![IF l.key = "max_conn" THEN "samples"
                                       ELSE l.key] = Value(l)]
                 ELSE fields
  /\ left' = Tail(left)
  /\ seen' = Append(seen, l)
  /\ UNCHANGED <<reader, pc, settings, opened>>

ParseLine ==
  LET l == Head(left) IN
  /\ pc = "lines"
  /\ left # <<>>
  /\ Named(l) => HasValue(l)
  /\ fields' = IF Named(l) THEN [fields EXCEPT ![l.key] = Value(l)] ELSE fields
  /\ left' = Tail(left)
  /\ seen' = Append(seen, l)
  /\ UNCHANGED <<reader, pc, settings, opened>>

(* The token is null, and strtol reads from address 1.                     *)
ParseLineFaults ==
  /\ pc = "lines"
  /\ left # <<>>
  /\ Named(Head(left)) /\ ~HasValue(Head(left))
  /\ pc' = "faulted"
  /\ UNCHANGED <<reader, left, fields, settings, seen, opened>>

(* Defect: the loop ends before the end of the file.                       *)
CloseEarly ==
  /\ pc = "lines"
  /\ pc' = "parsed"
  /\ UNCHANGED <<reader, left, fields, settings, seen, opened>>

Close ==
  /\ pc = "lines"
  /\ left = <<>>
  /\ pc' = "parsed"
  /\ UNCHANGED <<reader, left, fields, settings, seen, opened>>

read_config_file ==
  \/ Open \/ OpenFails
  \/ ParseLine \/ ParseLineFaults
  \/ Close

(* main: "Update context values from config file" (webserver.c 254).       *)
UpdateContext ==
  /\ reader = "main" /\ pc = "parsed"
  /\ settings' = fields
  /\ pc' = "updated"
  /\ UNCHANGED <<reader, left, fields, seen, opened>>

(* main forks the configuration process, which has a struct of its own.    *)
StartConfigProcess ==
  /\ reader = "main" /\ pc = "updated"
  /\ reader' = "config"
  /\ pc' = "idle"
  /\ fields' = [k \in Keys |-> Garbage]
  /\ seen' = <<>>
  /\ opened' = 0
  /\ UNCHANGED <<left, settings>>

(* The configuration process sends what it parsed and waits.               *)
Sent ==
  /\ reader = "config" /\ pc = "parsed"
  /\ pc' = "idle"
  /\ UNCHANGED <<reader, left, fields, settings, seen, opened>>

Reload ==
  /\ pc = "idle"
  /\ pc' = "open"
  /\ UNCHANGED <<reader, left, fields, settings, seen, opened>>

ParserNext ==
  \/ read_config_file
  \/ UpdateContext \/ StartConfigProcess \/ Sent \/ Reload

ParserSpec == ParserInit /\ [][ParserNext]_parserVars

-----------------------------------------------------------------------------
ParserTypeOK ==
  /\ reader \in {"main", "config"}
  /\ pc \in {"open", "lines", "parsed", "updated", "idle", "exited",
            "faulted"}
  /\ left \in Seq(Line) /\ (pc \notin {"lines", "faulted"} => left = <<>>)
  /\ fields \in [Keys -> Int]
  /\ settings \in [Keys -> Int]
  /\ seen \in Seq(Line) /\ Len(seen) <= MaxLines
  /\ opened \in 0..Len(seen)

(* The line is laid out as functions.c 306-311 expect it, and ends within  *)
(* what fgets can return at once.                                          *)
Fits(l) ==
  l.key \in Keys =>
    /\ l.equal
    /\ l.gap >= 1
    /\ EqualAt(l) + l.gap + Len(l.digits) <= 19

(* Line n is one of the file read last, and it names field k.              *)
Names(n, k) == n > opened /\ seen[n].key = k

(* What the process goes on with: main with its context, the configuration *)
(* process with the struct it sends.                                       *)
InUse == IF reader = "main" /\ pc = "updated" THEN settings ELSE fields

(* The last line for the field decides what is in it.                      *)
LastLineDecides(k) ==
  \E n \in DOMAIN seen :
    /\ Names(n, k)
    /\ InUse[k] = Number(seen[n].digits)
    /\ \A m \in DOMAIN seen : m > n => ~Names(m, k)

(* When all lines of the file fit, each field they name holds the number   *)
(* of the last line that names it: never the default, that of another      *)
(* line, of an earlier content of the file or part of a number, whatever   *)
(* was parsed before.  A field no line names is uninitialised or has an    *)
(* earlier value in place of its default: of it nothing is said.           *)
ParsedAsWritten ==
  (\A n \in DOMAIN seen : n > opened => Fits(seen[n])) =>
    \A k \in Keys :
      (\E n \in DOMAIN seen : Names(n, k)) => LastLineDecides(k)

(* Whatever the layout, a field is never larger than a number some line    *)
(* gave it: long lines and missing blanks lose digits, which only lowers   *)
(* max_conn, samples and the others.                                       *)
NeverMoreThanWritten ==
  \A k \in Keys :
    fields[k] # Garbage =>
      \E n \in DOMAIN seen :
        seen[n].key = k /\ fields[k] <= Number(seen[n].digits)

(* A file whose lines all fit does not crash its reader: no null token     *)
(* gets to strtol (functions.c 336-354).                                   *)
FittingLinesDoNotFault ==
  pc = "faulted" => \E n \in DOMAIN left : ~Fits(left[n])

=============================================================================
