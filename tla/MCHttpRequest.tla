----------------------------- MODULE MCHttpRequest -----------------------------
(* The requests, targets and base path of the runs of HttpRequest.               *)
EXTENDS HttpRequest

Line(is, bytes, value) == [bytes |-> bytes, is |-> is, value |-> value]
Blank == Line("blank", 1, 0)
RequestLine == Line("request", 2, 0)

(* Headers at and beyond the limits of 5 bytes, 2 headers and a body of 4.        *)
Small == Line("header", 1, 0)
Kinds == {Small, Line("header", 4, 0), Line("header", 5, 0), Line("header", 6, 0),
          Line("length", 1, 0), Line("length", 1, 2), Line("length", 1, 4), Line("length", 1, 5),
          Line("no_length", 1, 0), Line("chunked", 1, 0), Line("identity", 1, 0),
          Line("malformed", 1, 0)}
FewKinds == {Small, Line("length", 1, 2), Line("chunked", 1, 0), Line("malformed", 1, 0)}

Request(front, headers, after) ==
    [lines |-> front \o headers \o <<Blank>>, target |-> <<"models">>, after |-> after]

(* Any two headers, any three of a few kinds, and every other beginning of a      *)
(* request.  What the local program sends, or has sent so far, may be any part of *)
(* the head, of a body (one of 4 is taken without buffering it) and of more.      *)
FramedRequests ==
    {Request(<<RequestLine>>, headers, 5) : headers \in SeqOf(Kinds, 2) \cup SeqOf(FewKinds, 3)}
    \cup
    {Request(front, headers, 2) :
        front \in {<<Line("request", 3, 0)>>, <<Line("absolute", 1, 0)>>, <<Line("malformed", 2, 0)>>,
                   <<Blank, RequestLine>>, <<Blank, Line("request", 3, 0)>>, <<Blank>>},
        headers \in SeqOf({Small, Line("length", 1, 5)}, 1)}

(* The shortest request for every path of up to three segments, and for those     *)
(* that begin with a scheme up to five.                                           *)
MCBase == <<"v1">>
MCBehindOwn ==
    [own \in {"https:", "https:models", "https:.."} |->
        CASE own = "https:" -> "" [] own = "https:models" -> "models" [] own = "https:.." -> ".."]
Plain == {"v1", "models", "", "..", "%2F", "models:list"}
MCSegments == Plain \cup {"provider"} \cup DOMAIN MCBehindOwn
BehindScheme == SeqOf({"v1", "models", "", "provider"}, 3)
MCTargets ==
    (SeqOf(Plain, 3) \ {<<>>})
    \cup {front \o <<own>> \o rest :
            front \in {<<>>, MCBase}, own \in DOMAIN MCBehindOwn, rest \in BehindScheme}
TargetedRequests ==
    {[Request(<<RequestLine>>, <<>>, 0) EXCEPT !.target = path] : path \in MCTargets}

MCRequests == FramedRequests \cup TargetedRequests
================================================================================
