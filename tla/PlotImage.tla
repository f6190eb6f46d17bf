----------------------------- MODULE PlotImage -----------------------------
(***************************************************************************)
(* How a GET is answered with a picture: a client thread takes the last    *)
(* line of ./sup/data.dat, lets gnuplot draw the file into ./sup/data.png  *)
(* (generate_temperature_plot), and sends line and picture, the latter in  *)
(* base64 (send_response_data, get_base64_plot).  All threads use the one  *)
(* data.png, and nothing keeps them apart.                                 *)
(*                                                                         *)
(* data.dat is the number of its lines, which the plot process appends; a  *)
(* picture of it is a sequence of bytes.                                   *)
(***************************************************************************)
EXTENDS Integers, Sequences

CONSTANTS
  Threads,    (* client threads                                            *)
  MaxLines,   (* bound of the model: lines the plot process appends        *)
  Picture,    (* what gnuplot draws of so many lines                       *)
  FileBuf     (* sizeof(file_buf) in send_response_data                    *)

ASSUME MaxLinesAssumption == MaxLines \in Nat \ {0}
ASSUME PictureAssumption == Picture \in [0..MaxLines -> Seq(0..255) \ {<<>>}]
ASSUME FileBufAssumption == FileBuf \in Nat

VARIABLES
  up,        (* the server runs                                            *)
  lines,     (* lines in data.dat                                          *)
  png,       (* the bytes of data.png, or Absent                           *)
  tpc,       (* where each thread is                                       *)
  last_temp, (* the line each thread shows                                 *)
  gnuplot,   (* what each thread's gnuplot is doing                        *)
  drawn,     (* the lines it read of data.dat                              *)
  page,      (* the picture in the response of each thread, as characters  *)
  clash,     (* another gnuplot ran since the thread called popen and      *)
             (* until it encoded data.png (history)                        *)
  failed     (* the thread's gnuplot gave up (history)                     *)

vars == <<up, lines, png, tpc, last_temp, gnuplot, drawn, page, clash, failed>>

Absent == <<-1>>

(* What sprintf makes of a null pointer to the picture: "(null)".          *)
NoPicture == <<-1>>

-----------------------------------------------------------------------------
(* base64_encode.  A character is its index in the encoding table; "=" is  *)
(* the number after the last.                                              *)
Pad == 64

output_length(n) == 4 * ((n + 2) \div 3)
mod_table == [r \in 0..2 |-> IF r = 0 THEN 0 ELSE 3 - r]

Octet(data, i) == IF i <= Len(data) THEN data[i] ELSE 0

(* Defect: the octets of a triple are taken in the other order.            *)
TripleReversed(data, k) ==
  Octet(data, 3 * k + 3) * 65536 + Octet(data, 3 * k + 2) * 256
    + Octet(data, 3 * k + 1)

Triple(data, k) ==
  Octet(data, 3 * k + 1) * 65536 + Octet(data, 3 * k + 2) * 256
    + Octet(data, 3 * k + 3)

(* Defect: the sextet is not masked.                                       *)
SextetUnmasked(triple, k) ==
  triple \div (<<262144, 4096, 64, 1>>)[k + 1]

(* (triple >> 3 * 6) & 0x3F, and so on to 0 * 6                            *)
Sextet(triple, k) ==
  (triple \div (<<262144, 4096, 64, 1>>)[k + 1]) % 64

base64_encode(data) ==
  LET length == output_length(Len(data)) IN
  [j \in 1..length |->
     IF j > length - mod_table[Len(data) % 3]
       THEN Pad
       ELSE Sextet(Triple(data, (j - 1) \div 4), (j - 1) % 4)]

-----------------------------------------------------------------------------
(* The last run of the server may have left a picture.                     *)
Init ==
  /\ up = TRUE
  /\ lines = 0
  /\ png \in {Absent, Picture[0]}
  /\ tpc = [t \in Threads |-> "idle"]
  /\ last_temp = [t \in Threads |-> 0]
  /\ gnuplot = [t \in Threads |-> "none"]
  /\ drawn = [t \in Threads |-> 0]
  /\ page = [t \in Threads |-> <<>>]
  /\ clash = [t \in Threads |-> FALSE]
  /\ failed = [t \in Threads |-> FALSE]

ThreadGoto(t, from, to) ==
  /\ up
  /\ tpc[t] = from
  /\ tpc' = [tpc EXCEPT ![t] = to]

(* A gnuplot started by popen may outlive the server.                      *)
Die ==
  /\ up' = FALSE
  /\ UNCHANGED <<lines, png, tpc, last_temp, gnuplot, drawn, page, clash, failed>>

(* The plot process.                                                       *)
AppendLine ==
  /\ lines < MaxLines
  /\ lines' = lines + 1
  /\ UNCHANGED <<up, png, tpc, last_temp, gnuplot, drawn, page, clash, failed>>

(* A new thread, with the request of its client.  What get_last_temp makes *)
(* of an empty file is in SamplePipeline.                                  *)
get_last_temp(t) ==
  /\ ThreadGoto(t, "idle", "plot")
  /\ lines > 0
  /\ last_temp' = [last_temp EXCEPT ![t] = lines]
  /\ page' = [page EXCEPT ![t] = <<>>]
  /\ UNCHANGED <<up, lines, png, gnuplot, drawn, clash, failed>>

-----------------------------------------------------------------------------
(* generate_temperature_plot.                                              *)
Drawing(t) == gnuplot[t] \in {"started", "opened", "loaded", "half"}

(* popen, and the commands.  The windows of other threads see a gnuplot.   *)
Popen(t) ==
  /\ ThreadGoto(t, "plot", "close")
  /\ gnuplot' = [gnuplot EXCEPT ![t] = "started"]
  /\ clash' = [u \in Threads |->
       IF u = t THEN \E v \in Threads \ {t} : Drawing(v)
       ELSE clash[u] \/ tpc[u] \in {"close", "stat", "encode"}]
  /\ failed' = [failed EXCEPT ![t] = FALSE]
  /\ UNCHANGED <<up, lines, png, last_temp, drawn, page>>

(* Its null pointer goes to fprintf, or the shell ends before the commands *)
(* are written (SIGPIPE).                                                  *)
PopenFails(t) == up /\ tpc[t] = "plot" /\ Die

(* Defect: the thread does not wait for gnuplot.                           *)
PcloseAtOnce(t) ==
  /\ ThreadGoto(t, "close", "stat")
  /\ UNCHANGED <<up, lines, png, last_temp, gnuplot, drawn, page, clash, failed>>

(* pclose returns when gnuplot has ended.                                  *)
Pclose(t) ==
  /\ ThreadGoto(t, "close", "stat")
  /\ ~Drawing(t)
  /\ UNCHANGED <<up, lines, png, last_temp, gnuplot, drawn, page, clash, failed>>

GnuplotGoto(t, from, to) ==
  /\ gnuplot[t] = from
  /\ gnuplot' = [gnuplot EXCEPT ![t] = to]
  /\ UNCHANGED <<up, lines, tpc, last_temp, page, clash>>

(* "set output" truncates the file.                                        *)
GnuplotOpen(t) ==
  /\ GnuplotGoto(t, "started", "opened")
  /\ png' = <<>>
  /\ UNCHANGED <<drawn, failed>>

GnuplotLoad(t) ==
  /\ GnuplotGoto(t, "opened", "loaded")
  /\ drawn' = [drawn EXCEPT ![t] = lines]
  /\ UNCHANGED <<png, failed>>

(* A write at the offset of the writer.  A gap is filled with zeroes.      *)
Overlay(file, offset, bytes) ==
  LET end == offset + Len(bytes)
      length == IF Len(file) > end THEN Len(file) ELSE end
  IN  [i \in 1..length |->
         IF i > offset /\ i <= end THEN bytes[i - offset]
         ELSE IF i <= Len(file) THEN file[i] ELSE 0]

(* The picture is written in two parts, the first byte and the rest.       *)
GnuplotWrite(t) ==
  LET picture == Picture[drawn[t]] IN
  /\ \/ /\ GnuplotGoto(t, "loaded", "half")
        /\ png' = Overlay(png, 0, SubSeq(picture, 1, 1))
     \/ /\ GnuplotGoto(t, "half", "ended")
        /\ png' = Overlay(png, 1, SubSeq(picture, 2, Len(picture)))
  /\ UNCHANGED <<drawn, failed>>

GnuplotFails(t) ==
  /\ \E at \in {"started", "opened", "loaded", "half"} :
       GnuplotGoto(t, at, "ended")
  /\ failed' = [failed EXCEPT ![t] = TRUE]
  /\ UNCHANGED <<png, drawn>>

Gnuplot(t) == GnuplotOpen(t) \/ GnuplotLoad(t) \/ GnuplotWrite(t) \/ GnuplotFails(t)

-----------------------------------------------------------------------------
(* send_response_data first reads the file into file_buf, which nobody     *)
(* uses.                                                                   *)
Stat(t) ==
  /\ ThreadGoto(t, "stat", "encode")
  /\ png # Absent
  /\ UNCHANGED <<up, lines, png, last_temp, gnuplot, drawn, page, clash, failed>>

(* fopen returns NULL, without the file or without a free descriptor (each *)
(* response leaves one open): the thread calls exit().                     *)
StatFails(t) == up /\ tpc[t] = "stat" /\ Die

(* A picture that is larger than file_buf runs over the stack, with or     *)
(* without effect, as does a page that is larger than its buffer.          *)
FileBufOverrun(t) ==
  /\ up /\ tpc[t] = "stat"
  /\ png # Absent /\ Len(png) > FileBuf
  /\ Die

(* get_base64_plot and the response.  The characters have no end: what     *)
(* follows them on the heap is sent too, up to a zero.                     *)
Respond(t) ==
  /\ ThreadGoto(t, "encode", "idle")
  /\ \E rest \in {<<>>, <<0, 1>>} :
       page' = [page EXCEPT ![t] = base64_encode(png) \o rest]
  /\ UNCHANGED <<up, lines, png, last_temp, gnuplot, drawn, clash, failed>>

(* get_base64_plot or base64_encode returns NULL (fopen, malloc), and the  *)
(* response goes out without a picture.                                    *)
RespondWithout(t) ==
  /\ ThreadGoto(t, "encode", "idle")
  /\ page' = [page EXCEPT ![t] = NoPicture]
  /\ UNCHANGED <<up, lines, png, last_temp, gnuplot, drawn, clash, failed>>

client_thread(t) ==
  \/ get_last_temp(t)
  \/ Popen(t) \/ PopenFails(t) \/ Pclose(t)
  \/ Stat(t) \/ StatFails(t) \/ FileBufOverrun(t)
  \/ Respond(t) \/ RespondWithout(t)

Next ==
  \/ AppendLine
  \/ \E t \in Threads : client_thread(t) \/ Gnuplot(t)

Spec == Init /\ [][Next]_vars

-----------------------------------------------------------------------------
TypeOK ==
  /\ up \in BOOLEAN
  /\ lines \in 0..MaxLines
  /\ png = Absent \/ png \in Seq(0..255)
  /\ tpc \in [Threads -> {"idle", "plot", "close", "stat", "encode"}]
  /\ last_temp \in [Threads -> 0..MaxLines]
  /\ gnuplot \in [Threads -> {"none", "started", "opened", "loaded", "half", "ended"}]
  /\ drawn \in [Threads -> 0..MaxLines]
  /\ page \in [Threads -> Seq(0..Pad) \cup {NoPicture}]
  /\ clash \in [Threads -> BOOLEAN]
  /\ failed \in [Threads -> BOOLEAN]

(* Characters that stand for the data: groups of four for three bytes, the *)
(* last one padded, and every byte is the eight bits at its place.         *)
Decodes(chars, data) ==
  LET n == Len(data)
      value(j) == IF chars[j] = Pad THEN 0 ELSE chars[j]
      group(k) == value(4 * k + 1) * 262144 + value(4 * k + 2) * 4096
                    + value(4 * k + 3) * 64 + value(4 * k + 4)
  IN  /\ Len(chars) % 4 = 0 /\ 3 * (Len(chars) \div 4) \in n..(n + 2)
      /\ \A i \in 1..n :
           data[i] = (group((i - 1) \div 3)
                        \div (<<65536, 256, 1>>)[((i - 1) % 3) + 1]) % 256
      /\ \A j \in DOMAIN chars :
           chars[j] = Pad <=> j > Len(chars) - (3 * (Len(chars) \div 4) - n)

(* A response that carries a picture begins with a whole one, of data.dat  *)
(* as it was when the shown temperature was read, or later, whatever the   *)
(* other threads do with their responses meanwhile (webserver.c 206-207,   *)
(* plot_handler.c 43-62, functions.c 390-463).  What spoils it is a        *)
(* gnuplot of another thread on the same file, or one's own that fails; a  *)
(* response may also carry no picture at all.                              *)
PictureIsWholeAndFresh ==
  \A t \in Threads :
    up /\ tpc[t] = "idle" /\ page[t] \notin {<<>>, NoPicture}
      /\ ~clash[t] /\ ~failed[t] =>
      \E n \in last_temp[t]..lines :
        LET length == 4 * ((Len(Picture[n]) + 2) \div 3) IN
        /\ length <= Len(page[t])
        /\ Decodes(SubSeq(page[t], 1, length), Picture[n])

=============================================================================
