--------------------------- MODULE MCAdminConfig ---------------------------
EXTENDS AdminConfig

MCSections == {"a", "t", "tmpl", "bad"}
MCRender == [a |-> "a", t |-> "t", tmpl |-> "t", bad |-> "error"]
MCUserText == {[common |-> TRUE, token |-> "typed", body |-> "a"],
               [common |-> FALSE, token |-> "none", body |-> "bad"]}
=============================================================================
