SPECIFICATION FairSpec
INVARIANT FirewallAfterPasta
