----------------------------- MODULE MCMetadata -----------------------------
(* Answers for the runs of Metadata: two songs of one artist, one of which *)
(* the service first knows without artwork, a song with a title another    *)
(* one has, and a program named like a song.                               *)
EXTENDS Metadata

Words == {"a", "b", "t", "u", "p", "-"}

Songs ==
    {[artist |-> <<"a">>, title |-> <<"t">>, art |-> "cover"],
     [artist |-> <<"a">>, title |-> <<"t">>, art |-> "none"],
     [artist |-> <<"b">>, title |-> <<"t">>, art |-> "none"],
     [artist |-> <<"a">>, title |-> <<"u">>, art |-> "sleeve"]}

Programs == {<<"p">>, <<"a", "-", "t">>}
PlainPrograms == {<<"p">>}
=============================================================================
