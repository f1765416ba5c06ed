------------------------------- MODULE MCParts ------------------------------
(***************************************************************************)
(* Parts for TLC: the spellings of paths callers give, and the ways the    *)
(* receipt and two revisions of the firmware differ from the client.       *)
(***************************************************************************)
EXTENDS Parts

\* Blocked paths and others, with slashes and empty segments where the code looks
\* for them: "", "/", "api/..", "/api//update", "update//", "//update", a URL.
Spellings ==
  {<<"">>, <<"", "">>, <<"", "api">>, <<"", "account">>,
   <<"update">>, <<"", "update">>, <<"update", "">>, <<"update", "", "">>, <<"", "", "update">>,
   <<"api", "update">>, <<"", "api", "update", "">>, <<"", "api", "", "update">>,
   <<"api", "wifi", "networks">>, <<"busybar", "update">>, <<"", "busybar", "update">>,
   <<"http:", "", "update">>}

Version == <<"apiVersion", "http_api.h">>
Protobuf == <<"protobufCommit", "assets/proto">>
Apart(receipt, one, two) == [receipt |-> receipt, one |-> one, two |-> two]

\* Revision "two" differs in any one fact, recorded or not; the receipt alone differs
\* in one that no file is read for; or both revisions differ, each in another fact.
OneFact ==
  {Apart({}, {}, {})}
    \cup {Apart({}, {}, {f}) : f \in Facts}
    \cup {Apart({f}, {}, {f}) : f \in LookedUp("receipt")}
    \cup {Apart({f}, {}, {}) : f \in Unseen}
    \cup {Apart({}, {Version}, {Protobuf})}
=============================================================================
