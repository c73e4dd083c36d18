--------------------------- MODULE MCAssessmentPages ---------------------------
(***************************************************************************)
(* A small instance of AssessmentPages: answer sheets on both sides of the *)
(* bounds of every scale, and one user with one other client.              *)
(***************************************************************************)
EXTENDS AssessmentPages, TLC

\* One row of answers per domain.
All == [i \in 1..5 |-> 4]
AllBut(v) == [All EXCEPT ![3] = v]
Flat(v) == [i \in 1..5 |-> v]
Rows(r1, r2, r3, r4, r5) ==
    LET rows == <<r1, r2, r3, r4, r5>> IN [q \in assessmentQuestions |-> rows[q[1]][q[2]]]

Half == Flat(2)
HalfLess == <<2, 2, 2, 2, 1>>
Seven == <<2, 4, 4, 2, 2>>      \* scored 70

\* For the form: one question open, and total scores 50 and 90.
MCFormSheets == {
    Rows(All, All, All, All, AllBut(Unanswered)),
    demoAssessmentAnswers,
    Rows(All, Half, All, All, All)}

\* Total scores 49, 69, 70, 84, 85, 89, 94 and 95, two questions left out, and
\* five domains that are weak, two and two of them equally.
MCDirectSheets == {
    Rows(Half, Half, Half, Half, HalfLess),
    Rows(Seven, Seven, Seven, Seven, <<2, 4, 4, 2, 1>>),
    Rows(Seven, Seven, Seven, Seven, Seven),
    Rows(All, All, All, All, <<4, 0, 0, 0, 0>>),
    Rows(All, All, All, All, <<4, 0, 0, 1, 0>>),
    Rows(All, HalfLess, All, All, All),
    Rows(All, All, All, All, <<4, 4, 1, 4, 1>>),
    Rows(All, All, All, All, <<4, 4, 2, 4, 1>>),
    Rows(All, All, All, All, <<4, 4, Unanswered, 4, Unanswered>>),
    Rows(Flat(1), Half, Flat(1), Half, Flat(0))}

CallSymmetry == Permutations(Call)
=============================================================================
