SPECIFICATION FairSpec
CONSTANTS
    Providers = {"s3"}
    None = None
    MaxLate = 1
    w1 = w1
    w2 = w2
    p = p
    q = q
    Workers <- MCWorkers
    Prefixes <- MCPrefixes
    Posts <- MCPosts
    Deletes <- MCDeletes
    Payloads <- MCPayloads
    Published <- MCPublished
PROPERTIES HotReload
