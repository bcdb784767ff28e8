----------------------------- MODULE MCServices -----------------------------
(* The instances of Services for TLC. *)
EXTENDS Services, TLC

\* Steps that carry into the other bytes of a MAC address, and one that goes back.
MacSteps == {-1, 0, 1, 255, 256, 300, 65535, 70000}

\* Contents of a mail: a line is a text or a single dot.
MailContents == {<<"text">>, <<".", "text">>, <<"text", ".">>, <<"text", "text">>}

\* Workers and connections of the HTTP server are alike.
HttpSymmetry == Permutations(HttpWorkers) \cup Permutations(Conns)
=============================================================================
