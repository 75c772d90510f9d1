---------------------------- MODULE MCSmtpProxy ----------------------------
(***************************************************************************)
(* A client with two mails of two lines together, each the word DATA or one*)
(* that strips to a dot, and a client with one mail of one line that begins*)
(* with a dot.                                                             *)
(***************************************************************************)
EXTENDS SmtpProxy, TLC

CONSTANTS s1, s2, stuffed, spacedDot

MCSessions == {s1, s2}
MCLinesOf == (s1 :> {spacedDot, DataLine}) @@ (s2 :> {stuffed})
MCMailLimit == (s1 :> 2) @@ (s2 :> 1)
MCLineLimit == (s1 :> 2) @@ (s2 :> 1)
=============================================================================
