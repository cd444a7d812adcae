-------------------------- MODULE MCHintTranslation --------------------------
EXTENDS HintTranslation

\* Both spellings of one int field, one camelCase-only int field with its
\* promised snake_case form, a string key, and a key no backend knows.
MCHintKeys == {"minCTAs", "min_ctas", "shrink_share", "commName", "bogus_key"}

\* Values std::stoi accepts whole, with a prefix, or after white space;
\* ones it rejects as no number, and one beyond an 8-bit int.
MCValues == {<<"1">>, <<"-", "9">>, <<" ", "7">>, <<"9", "a">>, <<"a">>,
             <<"9", "9", "9">>}
=============================================================================
