------------------------------ MODULE ProviderUrl ------------------------------
(* Where at the provider a request is sent (src/openai/url.rs): the path of a     *)
(* request target, freed of the provider's base path when it begins with it, is   *)
(* joined to the base URL.                                                        *)
(*                                                                                *)
(* A path is the sequence of its segments, the text between one slash and the     *)
(* next: "/" is <<Empty>>, "/v1" is <<"v1">> and "/v1/" is <<"v1", Empty>>.  The  *)
(* query goes to the URL as it came and is left out; a "#" stays in its segment,  *)
(* as the fragment stays in the URL.  A segment stands for all ways of writing it *)
(* that are the same in a URL.                                                    *)
EXTENDS Integers, Sequences, SequencesExt

CONSTANTS
    Segments,       \* the segments a request path is made of
    Base,           \* the path of the provider's base URL, "/" at least
    Empty,          \* the empty segment
    Host,           \* the segment that reads like the provider's host
    DotSegments,    \* segments that percent-decode to "." or ".."
    Parents,        \* those of them that decode to ".."
    Undecodable,    \* segments that decode to one with a separator in it, or not at all
    Schemes,        \* segments that begin with a scheme, as "models:list" does
    BehindOwn       \* what is behind it in one that begins with the base's: "https:v1" |-> "v1"

ASSUME SegmentsAssumption ==
    /\ Empty \in Segments
    /\ Base \in Seq(Segments) \ {<<>>}
    /\ {Host} \cup DotSegments \cup Undecodable \cup Schemes \cup DOMAIN BehindOwn
          \subseteq Segments \ {Empty}
    /\ Parents \subseteq DotSegments /\ Schemes \cap DOMAIN BehindOwn = {}
    /\ BehindOwn \in [DOMAIN BehindOwn -> Segments]

Slashes(path) == {i \in DOMAIN path : \A j \in 1..i : path[j] = Empty}

(* trim_start_matches('/'): the empty segments at the front go; so does the last  *)
(* one, which has no slash after it.                                              *)
TrimStart(path) == SubSeq(path, Cardinality(Slashes(path)) + 1, Len(path))

(* The base path as it is compared, without the slashes at either end.            *)
base_path == Reverse(TrimStart(Reverse(TrimStart(Base))))

(* reject_unsafe_request_path with percent_decode_path_segment.                   *)
IsUnsafe(path) == \E i \in DOMAIN path : path[i] \in DotSegments \cup Undecodable

(* The path is the base path, or goes on after it with a slash.                   *)
HasBase(path) == base_path # <<>> /\ IsPrefix(base_path, path)

(* Faulty: the base path is left where it is, and so doubled.                     *)
WholePath(path) == TrimStart(path)

(* What is joined to the base: at most one base path is taken off.                *)
RelativePath(path) ==
    LET relative == TrimStart(path) IN
    IF HasBase(relative)
    THEN TrimStart(SubSeq(relative, Len(base_path) + 1, Len(relative)))
    ELSE relative

(* A URL of the provider, with its path, or that of another host.                 *)
Ours(path) == [ours |-> TRUE, path |-> path]
Elsewhere(path) == [ours |-> FALSE, path |-> path]
Refused == Elsewhere(<<>>)

(* The base has been given a slash at its end.                                    *)
Directory == IF Last(Base) = Empty THEN Front(Base) ELSE Base
InDirectory(directory, rest) == Ours(directory \o IF rest = <<>> THEN <<Empty>> ELSE rest)

(* An absolute URL: behind the slashes there is a host, and a path on it.         *)
OnHost(reference) ==
    LET host == TrimStart(reference) IN
    IF host = <<>> THEN Refused
    ELSE IF host[1] = Host THEN InDirectory(<<>>, Tail(host)) ELSE Elsewhere(host)

(* Behind the base's own scheme: with two slashes a host follows; with one, a     *)
(* path that replaces the base's; else one relative to it, which may begin with a *)
(* dot segment that nobody has looked for behind the scheme.                      *)
JoinBehindOwn(reference) ==
    LET first == reference[1]
        directory == IF first \in Parents /\ Directory # <<>> THEN Front(Directory) ELSE Directory
    IN IF first = Empty /\ Len(reference) > 1
       THEN IF reference[2] = Empty /\ Len(reference) > 2
            THEN OnHost(reference) ELSE Ours(Tail(reference))
       ELSE InDirectory(directory, IF first \in DotSegments THEN Tail(reference) ELSE reference)

(* Url::join: a reference that begins with a scheme is an absolute one, but not   *)
(* always when the scheme is the base's own.                                      *)
Join(relative) ==
    IF relative = <<>> THEN InDirectory(Directory, relative)
    ELSE IF relative[1] \in Schemes THEN Elsewhere(relative)
    ELSE IF relative[1] \in DOMAIN BehindOwn
    THEN JoinBehindOwn(<<BehindOwn[relative[1]]>> \o Tail(relative))
    ELSE InDirectory(Directory, relative)

(* provider_request_url_from_base: an error for a target with two slashes at its  *)
(* front or an unsafe segment, else the URL.                                      *)
ProviderRequestUrl(path) ==
    IF (Len(path) > 1 /\ path[1] = Empty) \/ IsUnsafe(path)
    THEN Refused
    ELSE Join(RelativePath(path))
================================================================================
