------------------------------ MODULE MCDevice ------------------------------
(* A short and a long URL, and numbers that do not fit into a byte.  No     *)
(* mixture of two of the URLs is the URL of an older image.                 *)
EXTENDS Device

P(major, minor, hash, host, file) ==
  [raw |-> <<major, minor, 0, 0>>, hash |-> hash, host |-> host, file |-> file]

MCHash == {"h0", "h1"}
MCTexts == {<<"a">>, <<"b", "b">>, <<"c">>}
MCJunk == {<<>>, <<"?">>}
MCImage == [raw |-> <<1, 1, 0, 0>>, hash |-> "h0"]

MCPackages ==
  {P(1, 0, "h0", <<"b", "b">>, <<"c">>),         \* older than the first image
   P(1, 2, "h0", <<"a">>, <<"a">>),              \* an upgrade
   P(1, 257, "h1", <<"b", "b">>, <<"b", "b">>)}  \* 1.1 when truncated, another hash

ASSUME MCUrls == UrlsDiffer
=============================================================================
