---- MODULE MCFileSelectors ----
EXTENDS FileSelectors, TLC

CONSTANTS p1, p2, s1, s2, i1, i2, i3

Slots == Permutations(Slot) \cup Permutations(Inode)

All == {"GET", "PUT", "DELETE", "MOVE", "MKCOL", "PROPFIND", "PROPPATCH", "OPTIONS"}
Files == [u \in {p1, p2} |-> u]
MCIndex == <<p1, p2>>
MCHosts ==
  [h \in {"dav", "*"} |->
     IF h = "dav" THEN << [kind |-> "webdav", methods |-> All, auth |-> FALSE, real |-> Files @@ (Root :> Root)],
                          [kind |-> "static", methods |-> {"GET"}, auth |-> FALSE, real |-> Files @@ (Root :> Root)] >>
     ELSE << [kind |-> "gzstatic", methods |-> {"GET"}, auth |-> TRUE, real |-> p2 :> p2] >>]

Ask == [host |-> "dav", method |-> "GET", url |-> p1, cond |-> "", range |-> <<>>, gzip |-> FALSE,
        dest |-> p2, size |-> 0, over |-> 0, mtime |-> 0]
MCRequests ==
  { [Ask EXCEPT !.cond = "If-None-Match"], [Ask EXCEPT !.gzip = TRUE],
    [Ask EXCEPT !.cond = "If-Range", !.range = << <<2, None>>, <<0, 1>> >>],
    [Ask EXCEPT !.range = << <<None, 5>> >>],
    [Ask EXCEPT !.url = Root, !.cond = "If-None-Match"],
    [Ask EXCEPT !.host = "other", !.url = p2],
    [Ask EXCEPT !.method = "PUT", !.size = 2, !.over = 1], [Ask EXCEPT !.method = "PUT", !.size = 2],
    [Ask EXCEPT !.method = "DELETE"], [Ask EXCEPT !.method = "MOVE"], [Ask EXCEPT !.method = "MKCOL"],
    [Ask EXCEPT !.method = "OPTIONS"], [Ask EXCEPT !.method = "PROPFIND"],
    [Ask EXCEPT !.method = "PROPPATCH", !.mtime = 0] }
====
