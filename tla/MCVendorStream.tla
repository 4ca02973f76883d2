---------------------------- MODULE MCVendorStream ----------------------------
(* Lines and documents for model checking VendorStream. *)
EXTENDS VendorStream

Line(field, value) == [field |-> field, value |-> value]

\* A wrapped document, one without "response", one in two pieces, and text that
\* is no JSON; an event other than the completed one; a comment.
MCLines ==
  {Line("blank", ""), Line("comment", ""), Line("event", Completed), Line("event", "delta")}
    \cup {Line("data", piece) : piece \in {"whole", "bare", "head", "tail", "text"}}

MCWrapped == {<<"whole">>, <<"head", "tail">>}
MCDocuments == MCWrapped \cup {<<"bare">>}

=============================================================================
