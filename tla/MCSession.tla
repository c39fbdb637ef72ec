----------------------------- MODULE MCSession ------------------------------
EXTENDS Session

CONSTANTS t1, t2

MCTexts == {t1, t2}
MCStored == <<t1>>
=============================================================================
