---------------------------- MODULE MCQuestionRun ----------------------------
EXTENDS QuestionRun

CONSTANTS r1, w1, w2
=============================================================================
