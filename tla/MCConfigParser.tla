--------------------------- MODULE MCConfigParser ---------------------------
(***************************************************************************)
(* Contents for ConfigParser: the file of the repository, with the         *)
(* numbers around what fits, and files with one or two unusual lines.      *)
(***************************************************************************)
EXTENDS ConfigParser

Entry(key, digits) ==
  [key |-> key, indent |-> 0, equal |-> TRUE, gap |-> 1, digits |-> digits]

RepositoryFile == <<Entry("backlog", <<2>>), Entry("max_conn", <<1, 0, 0, 0>>),
                    Entry("read_interval", <<1>>), Entry("samples", <<5>>)>>

(* Lines that fit by one character, and that do not.                       *)
Unusual ==
  {Entry("read_interval", <<1, 0>>),
   Entry("samples", <<1, 2, 3, 4, 5, 6, 7>>),
   Entry("samples", <<1, 2, 3, 4, 5, 6, 7, 8>>),
   Entry("max_conn", <<>>),
   [Entry("max_conn", <<1, 0>>) EXCEPT !.gap = 0],
   [Entry("read_interval", <<9>>) EXCEPT !.gap = 2],
   [Entry("read_interval", <<9>>) EXCEPT !.indent = 1],
   [Entry("read_interval", <<9>>) EXCEPT !.indent = 2],
   [Entry("read_interval", <<9>>) EXCEPT !.indent = 6],
   [Entry("samples", <<>>) EXCEPT !.equal = FALSE],
   [Entry("text", <<>>) EXCEPT !.equal = FALSE]}

MCContents ==
  {RepositoryFile, <<>>}
  \cup {<<l>> : l \in Unusual}
  \cup {<<l, Entry("samples", <<3>>)>> : l \in Unusual}
=============================================================================
