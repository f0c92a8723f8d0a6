\* Some forty thousand requests, at most seven free bytes in each.
CONSTANT Jobs <- MCJobs
SPECIFICATION RequestSpec
INVARIANTS JsonTypeOK StacksAgree ParsesTheGrammar AnswerIsRight OnlyTheseTerminate StringsAreUtf8
\* The model ends with its one package.
CHECK_DEADLOCK FALSE
