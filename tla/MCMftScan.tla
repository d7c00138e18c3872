------------------------------ MODULE MCMftScan ------------------------------
(***************************************************************************)
(* Small volumes for MftScan, in three families: layouts of the table,     *)
(* contents of a record, and parents.                                      *)
(***************************************************************************)
EXTENDS MftScanProps

NameAttr(ns, name, parent) ==
  [type |-> "name", form |-> "good", inside |-> TRUE, plain |-> TRUE,
   ns |-> ns, name |-> name, parent |-> parent]
Long(name, parent) == NameAttr("win32", name, parent)
Attr(type, form, inside) == [Long("", 0) EXCEPT !.type = type, !.form = form, !.inside = inside]

Record(attrs) ==
  [file |-> TRUE, checks |-> 1, sectors |-> <<TRUE>>, used |-> TRUE, base |-> 0, attrs |-> attrs]
Root == Record(<<Long("root", 0)>>)
Plain(name, parent) == Record(<<Long(name, parent)>>)
Table(seq) == [n \in 0..Len(seq) - 1 |-> seq[n + 1]]

Piece(vcn, lcn, len) == [vcn |-> vcn, lcn |-> lcn, len |-> len]
Volume(bpc, rec, layout, bytes, valid, records) ==
  [bpc |-> bpc, rec |-> rec, layout |-> layout, bytes |-> bytes, valid |-> valid,
   records |-> records]
Simple(records, valid) ==
  LET layout == <<Piece(0, 3, Cardinality(DOMAIN records))>> IN
  Volume(1, 1, layout, Encoded(layout), valid, records)

\* Four records and two left over, in one to three pieces, the list of which may
\* be cut off; clusters of one and two records, and records of two clusters.
Tree == Table(<<Root, Plain("a", 0), Plain("b", 1), Plain("c", 1), Plain("old", 0), Plain("old", 1)>>)
Layouts ==
  {<<Piece(0, 3, 6)>>, <<Piece(0, 130, 2), Piece(2, 4, 4)>>,
   <<Piece(0, 9, 1), Piece(1, 250, 2), Piece(3, 2, 3)>>,
   <<Piece(0, 6, 3), Piece(3, Sparse, 1), Piece(4, 20, 2)>>}
Lists(layout) == {SubSeq(Encoded(layout), 1, k) : k \in 1..Len(Encoded(layout))} \cup {Unreadable}
ByLayout ==
  UNION {{Volume(g[1], g[2], l, b, v, Tree) : b \in Lists(l)} :
           l \in Layouts, g \in {<<1, 1>>, <<2, 1>>, <<1, 2>>}, v \in {2, 4}}

\* A record with any two attributes, and a long name before or behind them or none,
\* below a directory and above a file.
Attrs ==
  {Long("x", 1), NameAttr("dos", "x~1", 1), NameAttr("both", "y", 0), NameAttr("posix", "p", 0), Long(Undecodable, 1),
   [Long("z", 1) EXCEPT !.form = "cut"], Attr("std", "good", TRUE), Attr("data", "good", FALSE),
   Attr("data", "torn", TRUE), Attr("other", "broken", TRUE), Attr("end", "good", TRUE)}
ByAttributes ==
  {Simple(Table(<<Root, Plain("a", 0), Record(attrs), Plain("c", 2)>>), 4) :
     attrs \in UNION {{<<x, y, Long("w", 1)>>, <<Long("w", 1), x, y>>, <<x, y>>} :
                        x \in Attrs, y \in Attrs}}

\* A record that is damaged, unused or belongs to another one.
ByState ==
  {Simple(Table(<<Root, [Plain("a", 0) EXCEPT !.file = f, !.checks = Len(s), !.sectors = s,
                                              !.used = u, !.base = b], Plain("c", 1)>>), 3) :
     f \in BOOLEAN, u \in BOOLEAN, b \in {0, 2}, s \in {<<TRUE, TRUE>>, <<FALSE, TRUE>>, <<TRUE, FALSE>>}}

\* Any parents, also missing ones, ones that come later and circles.
ByParents ==
  {Simple(Table(<<Root, Plain("a", q[1]), Plain("b", q[2]), Plain(n, q[3])>>), 4) :
     q \in [1..3 -> 0..4], n \in {"d", "skip", "~$d", "$d"}}

\* Chains of four, the lowest number of which is anywhere in it, and one file beside
\* them.
ByDepth ==
  {Simple(Table(<<Root, Plain("a", q[1]), Plain("b", q[2]), Plain("c", q[3]), Plain("d", q[4]),
                  Plain("e", 0)>>), 6) :
     q \in {[n \in 1..4 |-> IF \E k \in 1..3 : p[k] = n
                            THEN p[1 + CHOOSE k \in 1..3 : p[k] = n] ELSE 0] :
              p \in {p \in [1..4 -> 1..4] : \A i, j \in 1..4 : i # j => p[i] # p[j]}}}

MCExcludedPaths == {<<"b", "a">>}
MCVolumes == {v \in ByLayout : v.valid \leq 6 * v.bpc} \cup ByAttributes \cup ByDepth \cup ByState \cup ByParents
=============================================================================
