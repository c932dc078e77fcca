------------------------ MODULE MCInboundAdmissions ------------------------
(***************************************************************************)
(* Small instances of InboundAdmissions: the owner, a writer who is made   *)
(* Editor or loses the role, and a visitor; the rows of one branch of the  *)
(* hierarchy, in an order peers choose.                                    *)
(***************************************************************************)
EXTENDS InboundAdmissions

CONSTANTS o, a, b, f, x, p, q, n, r, m, k

MCPeers == {o, a, b}
MCScopes == {VerseScope} \cup {FractalScope(i) : i \in Fractals}
              \cup {PetalScope(i, j) : i \in Fractals, j \in Petals}
MCChain == [s \in MCScopes |-> {t \in MCScopes : IsPrefix(t, s)}]
MCDidRank == (o :> 1) @@ (a :> 2) @@ (b :> 3)

Row(table, id, author, ref, val, tomb, t) ==
    [table |-> table, id |-> id, author |-> author, ref |-> ref, val |-> val,
     ns |-> NoRef, tomb |-> tomb, hlc |-> t]

Grant(g, w, s, role, rev, t) ==
    [scope |-> s, peer |-> w, grantor |-> g, role |-> role, revoked |-> rev, hlc |-> t]

VerseRow == Row("verse", "verse", o, o, None, FALSE, 0)
FractalRow(author) == Row("fractal", f, author, "here", NoRef, FALSE, 0)
PetalRow(id, parent) == Row("petal", id, o, parent, NoRef, FALSE, 0)
NodeRow(author, in, tomb, t) == Row("node", n, author, in, NoRef, tomb, t)
ReadingRow == Row("iot_reading", r, a, p, n, FALSE, 0)
Enrolment(who, rev) == Row("device_enrolment", who, who, NoRef, NoRef, rev, 0)

(* One branch, from the manifest down to a reading, and a visitor's        *)
(* enrolment.                                                              *)
MCBranch == {VerseRow, FractalRow(o), PetalRow(p, f), NodeRow(a, p, FALSE, 1),
             ReadingRow, Enrolment(b, FALSE)}

MCRoles == { {}, {Grant(o, a, PetalScope(f, p), Editor, FALSE, 1)},
             {Grant(o, a, PetalScope(f, p), None, TRUE, 2)},
             {Grant(o, a, PetalScope(f, p), Editor, FALSE, 1),
              Grant(o, b, FractalScope(f), Viewer, FALSE, 1)} }

(* Two authors' snapshots of one node, as late as the owner's own edits or *)
(* tied with them, a tombstone, unversioned rows, the empty delete entry.  *)
MCMerge == {VerseRow, FractalRow(o), PetalRow(p, f),
            NodeRow(a, p, FALSE, 1), NodeRow(b, p, FALSE, 2),
            NodeRow(o, p, FALSE, 0), NodeRow(o, NoRef, FALSE, 0),
            NodeRow(b, NoRef, TRUE, 0), NodeRow(b, p, TRUE, 1)}

MCWriters == { {Grant(o, a, PetalScope(f, p), Editor, FALSE, 1),
                Grant(o, b, VerseScope, Editor, FALSE, 1)} }

(* Rows that name another verse, its fractal x, petal q or node m, move a  *)
(* node, delete it, versioned and not, or change what only a Manager may.  *)
MCMoves == {VerseRow, [VerseRow EXCEPT !.id = "other"],
            [VerseRow EXCEPT !.author = a, !.ns = k],
            FractalRow(o), Row("fractal", x, o, "here", NoRef, FALSE, 0),
            PetalRow(p, f), PetalRow(p, x), PetalRow(q, f),
            Row("petal", r, o, f, k, FALSE, 0), Row("petal", r, a, f, Null, FALSE, 0),
            NodeRow(a, p, FALSE, 0), NodeRow(a, r, FALSE, 0), NodeRow(b, r, FALSE, 0),
            Row("node", m, o, p, NoRef, FALSE, 0),
            NodeRow(b, NoRef, TRUE, 0), NodeRow(a, p, FALSE, 1), NodeRow(o, p, TRUE, 1)}

MCSplitRoles == { {}, {Grant(o, a, PetalScope(f, p), Editor, FALSE, 1)},
                  {Grant(o, a, VerseScope, Manager, FALSE, 1),
                   Grant(o, b, PetalScope(f, r), Editor, FALSE, 1)},
                  {Grant(o, a, VerseScope, None, TRUE, 2),
                   Grant(o, b, PetalScope(f, r), Editor, FALSE, 1)} }

(* A visitor's enrolment.                                                  *)
MCVisit == {VerseRow, Enrolment(b, FALSE), Enrolment(b, TRUE)}
MCNoRoles == { {} }
MCUnpin == { {}, {Grant(o, b, VerseScope, None, FALSE, 1)},
             {Grant(o, b, VerseScope, None, TRUE, 2)} }
MCOpenVisit == {[VerseRow EXCEPT !.val = Viewer], Enrolment(b, FALSE)}
=============================================================================
