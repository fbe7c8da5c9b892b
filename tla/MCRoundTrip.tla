---------------------------- MODULE MCRoundTrip -----------------------------
(* The files of small encoders, closed or abandoned at any step, with tags  *)
(* of either kind before them, blocks of every kind put anywhere, cut in    *)
(* their metadata or in their audio, and decoded in one call.               *)
EXTENDS RoundTrip

Plain == [valid |-> TRUE, seekable |-> TRUE, declared |-> 0, interval |-> 0,
          maxPoints |-> 0, tags |-> "none", md5 |-> "running"]
MCConfigs ==
    {Plain,
     [Plain EXCEPT !.interval = 2, !.maxPoints = 1],
     [Plain EXCEPT !.interval = 2, !.maxPoints = 3, !.tags = "good"],
     [Plain EXCEPT !.seekable = FALSE, !.tags = "good", !.declared = 3]}

Prefix(id3, footer, n) == [id3 |-> id3, footer |-> footer, prefix |-> n, marker |-> TRUE]
MCLeading ==
    {Prefix(<<>>, FALSE, 0),
     Prefix(<<0, 0, 0, 3>>, FALSE, 13),
     Prefix(<<0, 0, 129, 130>>, TRUE, 150),
     [Prefix(<<>>, FALSE, 0) EXCEPT !.marker = FALSE]}

Added(kind, len, body) == [kind |-> kind, len |-> len, last |-> FALSE, body |-> body]
Rates(legal) == [legal |-> legal, info |-> <<"other">>]
Other(n, comments) == [vendor |-> n, comments |-> comments, tags |-> <<"other">>]
Table(q) == [points |-> q]
MCForeign ==
    {Added("app", 3, <<>>), Added("invalid", 0, <<>>),
     Added("info", 34, Rates(TRUE)), Added("info", 34, Rates(FALSE)),
     Added("info", 33, Rates(TRUE)),
     Added("tags", 9, Other(1, <<>>)), Added("tags", 14, Other(0, <<2>>)),
     Added("tags", 12, Other(0, <<4>>)), Added("tags", 10, Other(0, <<0>>)),
     Added("tags", 3, Other(0, <<>>)), Added("tags", 12, Other(9, <<>>)),
     Added("seek", 19, Table(<<>>)),
     Added("seek", 36, Table(<<Unused, [sample |-> 7, offset |-> 1, samples |-> 2]>>))}

MCComments == <<2>>
=============================================================================
