------------------------------ MODULE MCZipFs ------------------------------
EXTENDS ZipFs

S(k, n, e, d, c) == [kind |-> k, name |-> n, extra |-> e, data |-> d, comment |-> c]

MCSection == {S("local", 0, 0, 0, 0), S("local", 1, 2, 9, 0), S("central", 0, 0, 0, 0),
              S("central", 1, 2, 0, 9), S("end", 0, 0, 0, 0), S("end", 0, 0, 0, 5),
              S("bad", 0, 0, 0, 0)}
=============================================================================
