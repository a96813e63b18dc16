---------------------------- MODULE BearerToken ----------------------------
(***************************************************************************)
(* BearerToken of app.rs: which credential is accepted, from a variable    *)
(* or in a file, and as what.  A file that cannot be read is left out.     *)
(*                                                                         *)
(* The bytes of either are a sequence over "t" (what a token may hold),    *)
(* "sp" (other white space), "cr", "lf" and "hi" (no part of a header).    *)
(***************************************************************************)
EXTENDS Naturals, Sequences, SequencesExt, FiniteSetsExt

CONSTANTS
    MaxTokenBytes,
    NotGiven,           \* a source, or a credential, that is not there
    NoToken             \* an error

TokenBytes == {"t", "sp", "cr", "lf", "hi"}

ASSUME TokenAssumption ==
    /\ MaxTokenBytes \in Nat \ {0}
    /\ NotGiven \notin Seq(TokenBytes) \cup {NoToken}
    /\ NoToken \notin Seq(TokenBytes)

Prefix(bytes, n) == SubSeq(bytes, 1, Min({n, Len(bytes)}))

\* Mutant: no byte is read beyond the longest file that may pass.
ReadExactly(bytes) == Prefix(bytes, MaxTokenBytes + 2)

\* take(read_limit): one byte more than may pass.
ReadLimited(bytes) == Prefix(bytes, MaxTokenBytes + 3)

\* One CRLF or one LF is no part of the token.
StripTerminator(bytes) ==
    CASE IsSuffix(<<"cr", "lf">>, bytes) -> Prefix(bytes, Len(bytes) - 2)
      [] IsSuffix(<<"lf">>, bytes) /\ ~ IsSuffix(<<"cr", "lf">>, bytes) ->
            Prefix(bytes, Len(bytes) - 1)
      [] OTHER -> bytes

\* parse_named
ValidToken(token) ==
    Len(token) \in 1..MaxTokenBytes /\ Range(token) \subseteq {"t"}

FromFile(bytes) ==
    LET read == ReadLimited(bytes)
        token == StripTerminator(read)
    IN IF Len(read) <= MaxTokenBytes + 2 /\ ValidToken(token) THEN token
       ELSE NoToken

\* from_sources: the contents of the variable and those of the file.
FromSources(direct, file) ==
    CASE direct = NotGiven -> IF file = NotGiven THEN NotGiven ELSE FromFile(file)
      [] direct # NotGiven /\ file # NotGiven -> NoToken
      [] OTHER -> IF ValidToken(direct) THEN direct ELSE NoToken
-----------------------------------------------------------------------------
\* README.md:155: the token is the whole file but for one LF or CRLF, and a
\* file that holds more than a token and a terminator gives none.  The variable
\* is taken as it is, and gives what a file of the same bytes gives.
TokenIsWholeFile(bytes) ==
    LET token == FromSources(NotGiven, bytes) IN
    /\ token # NoToken =>
          bytes \in {token, token \o <<"lf">>, token \o <<"cr", "lf">>}
    /\ token = NoToken =>
          \A end \in {<< >>, <<"lf">>, <<"cr", "lf">>} : \A n \in 1..MaxTokenBytes :
              bytes # [i \in 1..n |-> "t"] \o end
    /\ FromSources(bytes, NotGiven) = IF token = bytes THEN token ELSE NoToken
    /\ FromSources(bytes, bytes) = NoToken
=============================================================================
