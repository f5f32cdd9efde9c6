------------------------------ MODULE MC_Pipeline ------------------------------
EXTENDS Pipeline

\* Every feed file of MCFeedLen records over the two engines' symbols and one
\* unknown symbol, and the empty feed: FeedHandler::run returns at once when
\* the file cannot be opened, stat'ed or mapped, or is empty.
MCFeedLen == 3
AllFeeds == [1..MCFeedLen -> Records] \cup {<<>>}

================================================================================
