------------------------- MODULE MCExternalEffects -------------------------
EXTENDS ExternalEffects, TLC
CONSTANTS e1, e2, mail, note, m1, n1
TwoSlots == {e1, e2}
TwoTools == {mail, note}
OnlyMail == {mail}
TwoRequests == {m1, n1}
MailOrNote == [r \in Requests |-> IF r = n1 THEN note ELSE mail]
NoneOrBroad ==
    {[ask |-> {}, always |-> {}, broad |-> x] : x \in {{}, TwoTools}}
Slots == Permutations(TwoSlots)
===========================================================================
