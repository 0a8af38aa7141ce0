---------------------------- MODULE MCSiteAudits ----------------------------
(***************************************************************************)
(* Instances of tracked projects and their crawls for TLC.                 *)
(***************************************************************************)
EXTENDS SiteAudits

Read(status, title, h1, lacks, langs) ==
    [outcome |-> "read", status |-> status, redirected |-> TRUE, title |-> title, h1 |-> h1,
     lacks |-> lacks, hreflangs |-> langs]

\* Both URLs redirect to one page of everything a rule counts.
MCPage(u, f) == Read(200, "long", 0, {"missing_html_lang"}, <<"en", "de", "en">>)
=============================================================================
