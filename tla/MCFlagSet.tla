----------------------------- MODULE MCFlagSet -----------------------------
(***************************************************************************)
(* Small instances of FlagSet: a word of three or four bits, two of them   *)
(* flags, in programs that declare them in different ways.                 *)
(***************************************************************************)
EXTENDS FlagSet, TLC

CONSTANTS x, y

Form(enum, atomic, linked) == [enum |-> enum, atomic |-> atomic, linked |-> linked]
AllForms == {Form(TRUE, FALSE, FALSE), Form(TRUE, TRUE, TRUE), Form(FALSE, FALSE, FALSE),
             Form(FALSE, TRUE, FALSE), Form(FALSE, TRUE, TRUE)}
PositionForm == {Form(FALSE, FALSE, FALSE)}
Either == Permutations(Names)

On(name, value) == [name |-> name, value |-> value, on |-> TRUE]
Off(name, value) == [name |-> name, value |-> value, on |-> FALSE]
Declared(enum, position, atomic) == [enum |-> enum, position |-> position, atomic |-> atomic]

\* The same flags everywhere; a constant that is off, an alias, and an atomic
\* set with fewer flags; a name declared twice, the variants out of order; a
\* variant, and a constant, beyond the word, which do not compile.
Plain == Declared(<<On("A", 0), On("C", 2)>>, <<On("A", 0), On("C", 2)>>, <<On("A", 0), On("C", 2)>>)
Aliased == Declared(<<On("A", 0), On("C", 2)>>,
                    <<On("A", 0), Off("B", 1), On("Z", 0), On("C", 2)>>, <<On("A", 0), Off("B", 1)>>)
Twice == Declared(<<On("C", 2), On("A", 0)>>,
                  <<Off("A", 1), On("C", 2), On("A", 0)>>, <<On("C", 2), Off("A", 1), On("A", 0)>>)
Beyond == Declared(<<On("A", 0), On("C", 4)>>, Plain.position, Plain.atomic)
AllPrograms == {Plain, Aliased, Twice, Beyond}
OneProgram == {Plain}

\* No step depends on ret or built: states that differ in them alone have the
\* same successors.
Contents == <<form, tables, debug, bits, raw, loop>>

=============================================================================
